---- MODULE Spec2Model ----
\* WhatsApp Analytics API server (api_server.js): the polling / diff / dedup /
\* persistence / fanout engine, modelled at the granularity of the JavaScript
\* event loop: one action per handler segment between two awaits.
EXTENDS Naturals, Integers, Sequences, FiniteSets, Bags, TLC

\* ------------------------------------------------------------------ bounds
\* timer firings of setInterval(checkAllGroups, CHECK_INTERVAL)
MaxTicks == 2
\* async handlers (checkAllGroups runs, POST /api/groups requests) alive at once
MaxTasks == 2
\* POST /api/groups requests served
MaxAdds == 2
\* messages the collaborator's chats ever hold (message ids are 1..MaxMsgs)
MaxMsgs == 2
\* membership changes at the collaborator
MaxMemberChanges == 2
\* last instant of the wall clock (new Date()); instants 0..MaxClock
MaxClock == 1
\* wall-clock instants per calendar day
InstantsPerDay == 2
\* timer firings in the history scenario
MaxHistoryTicks == 1
\* ready events of the collaborator
MaxReadies == 2
\* group_join / group_leave notifications of the collaborator
MaxPushes == 2
\* edits of messages at the collaborator
MaxEdits == 1
\* last instant of the wall clock in the certificate scenario
MaxCertificateClock == 2
\* rows of the events table in the paging scenario
MaxRows == 3
\* the window scenario: the messages the chat holds at its start, all of them
\* observed, and the messages it ever holds
WindowStart == 98
MaxWindowMsgs == 103

\* the larger configured fetch limit, and how often the timer fires with it
BigLimit == 200
MaxLimitTicks == 3
MaxSockets == 3

\* --------------------------------------------------------------- constants
\* config.messageLimit || 15
MESSAGE_LIMIT == 15
\* previousMessageIds.size > 100  /  idsArray.slice(-100)
WINDOW_CAP == 100

\* ----------------------------------------------------------------- strings
\* A string is a sequence of one-character strings, so that toLowerCase(),
\* includes(), trim() and === are computed and not assumed.
CairoTeam == <<"C","a","i","r","o"," ","T","e","a","m">>
Giza == <<"G","i","z","a">>
cairo == <<"c","a","i","r","o">>
giza == <<"g","i","z","a">>
luxor == <<"l","u","x","o","r">>
blank == <<" ">>

toLowerCase1(c) ==
    CASE c = "C" -> "c" [] c = "T" -> "t" [] c = "G" -> "g" [] OTHER -> c

toLowerCase(s) == [i \in 1..Len(s) |-> toLowerCase1(s[i])]

\* String.prototype.includes
includes(s, sub) ==
    \E i \in 0..(Len(s) - Len(sub)) : SubSeq(s, i + 1, i + Len(sub)) = sub

RECURSIVE trimStart(_)
trimStart(s) == IF s # <<>> /\ Head(s) = " " THEN trimStart(Tail(s)) ELSE s

RECURSIVE trimEnd(_)
trimEnd(s) ==
    IF s # <<>> /\ s[Len(s)] = " " THEN trimEnd(SubSeq(s, 1, Len(s) - 1)) ELSE s

\* String.prototype.trim
trim(s) == trimEnd(trimStart(s))

\* ------------------------------------------------------------- collaborator
\* client.getChats(): the chats in the collaborator's order; the first one is a
\* private chat (isGroup false), the others are the two groups.
Chats ==
    << [id |-> "u1", name |-> cairo, isGroup |-> FALSE],
       [id |-> "g1", name |-> CairoTeam, isGroup |-> TRUE],
       [id |-> "g2", name |-> Giza, isGroup |-> TRUE] >>

GroupIds == {"g1", "g2"}
Members == {"a@c", "b@c"}
\* group.participants is delivered in this order
MemberOrder == <<"a@c", "b@c">>
\* the names POST /api/groups is called with
ReqNames == {cairo, CairoTeam, luxor, blank}
\* WebSocket connections
Conns == {"c1", "c2"}

\* chats.find(chat => chat.isGroup && chat.name &&
\*            chat.name.toLowerCase().includes(groupName.toLowerCase()))
RECURSIVE findFrom(_, _)
findFrom(i, groupName) ==
    IF i > Len(Chats) THEN "none"
    ELSE IF Chats[i].isGroup /\ Chats[i].name # <<>>
            /\ includes(toLowerCase(Chats[i].name), toLowerCase(groupName))
         THEN Chats[i].id
         ELSE findFrom(i + 1, groupName)

\* a faulty variant: chats.find(chat => chat.isGroup)
findGroupAny(groupName) ==
    Chats[CHOOSE i \in 1..Len(Chats) :
             Chats[i].isGroup /\ \A j \in 1..(i - 1) : ~ Chats[j].isGroup].id

findGroup(groupName) == findFrom(1, groupName)

chatName(g) == Chats[CHOOSE i \in 1..Len(Chats) : Chats[i].id = g].name

\* contact.pushname of a member id; phoneOf is memberId.split('@')[0]
pushname(m) == CASE m = "a@c" -> "Alice" [] m = "b@c" -> "Bob" [] OTHER -> ""
phoneOf(m) == CASE m = "a@c" -> "a" [] m = "b@c" -> "b" [] OTHER -> ""

\* The messages a chat can receive: a text and a voice recording of member a,
\* and the notification that member b was added.
ChatKind == [type |-> "chat", author |-> "a@c", subtype |-> "", recipient |-> "",
             body |-> "hi"]
VoiceKind == [type |-> "ptt", author |-> "a@c", subtype |-> "", recipient |-> "",
              body |-> ""]
AddedKind == [type |-> "notification", author |-> "", subtype |-> "add", recipient |-> "b@c",
              body |-> ""]
MsgKinds == {ChatKind, VoiceKind, AddedKind}

\* ------------------------------------------------------------------- time
\* new Date(...).toISOString(): two date digits, then the instant within the day
Digits == <<"0", "1", "2", "3", "4", "5", "6", "7", "8", "9">>
toISOString(n) ==
    LET d == n \div InstantsPerDay
    IN  << Digits[(d \div 10) + 1], Digits[(d % 10) + 1],
           Digits[(n % InstantsPerDay) + 1] >>

\* timestamp.substring(0, 10): the YYYY-MM-DD part
dateOf(iso) == SubSeq(iso, 1, 2)

\* ------------------------------------------------------------------ state
VARIABLES
    \* collaborator (WhatsApp client) and wall clock
    chatMembers,     \* group id -> set of member ids (group.participants)
    chatMsgs,        \* group id -> sequence of messages, oldest first
    now,             \* the wall clock
    envCount,        \* [msgs, changes, readies, pushes, edits]: what the
                     \*   collaborator has done so far
    pager,           \* a dashboard paging through GET /api/events
    \* api_server.js module state
    clientState,     \* the Client object: "starting" | "ready" | "disconnected";
                     \*   "exited" once process.exit() was called
    isClientReady,
    unhandled,       \* promise rejections no handler caught, so far
    GROUP_NAMES,     \* config.groups as read at startup
    messageLimit,    \* the const MESSAGE_LIMIT: config.messageLimit || 15 as read
                     \*   at startup
    configFile,      \* config.json: the groups list on disk
    monitoredGroups, \* Map in insertion order: sequence of [id, obj, serial]
    heap,            \* the groupInfo objects: obj -> [previousMessageIds,
                     \*   previousMembers, isFirstRun], and observed: the ids the
                     \*   object's passes fetched, least recently fetched first,
                     \*   fetched: the messages its latest fetch returned
    groupInfoStore,  \* group id -> [name, memberCount]
    timers,          \* active setInterval(checkAllGroups) timers
    tasks,           \* the async handlers in flight, by slot
    counters,        \* [ticks, adds, serial]: bookkeeping of the scheduler
    \* SQLite
    messages,        \* table messages, in rowid order
    events,          \* table events, in id order
    dbPending,       \* statements handed to sqlite3 and not yet executed (a bag)
    \* WebSocket fanout
    wsClients,       \* the Set wsClients, in insertion order
    readyState,      \* connection -> "NONE" | "OPEN" | "CLOSED"
    inbox,           \* connection -> bag of the envelopes it has received
    \* HTTP
    http,            \* responses sent so far: set of [req, name, status, group]
    \* the dashboard (src/unnamed/part_000)
    wsClient         \* the WSClient object: [ws, reconnectTimeout] with the
                     \*   sockets it has created, the timeouts that are armed and
                     \*   the method the application called last

envVars == <<chatMembers, chatMsgs, now, envCount, pager>>
cliVars == <<clientState, isClientReady, unhandled>>
regVars == <<GROUP_NAMES, messageLimit, configFile, monitoredGroups, heap, groupInfoStore>>
dbVars == <<messages, events, dbPending>>
wsVars == <<wsClients, readyState, inbox>>
vars == <<chatMembers, chatMsgs, now, envCount, pager, clientState, isClientReady, unhandled, GROUP_NAMES,
          messageLimit, configFile, monitoredGroups, heap, groupInfoStore, timers, tasks,
          counters, messages, events, dbPending, wsClients, readyState, inbox,
          http, wsClient>>

backendVars == <<envVars, cliVars, regVars, timers, tasks, counters, dbVars, wsVars, http>>

Idle == [kind |-> "idle"]

\* new WSClient(): ws = null and reconnectTimeout = null (0 stands for null);
\* no socket was created and no timeout is armed
newWSClient ==
    [ws |-> 0, reconnectTimeout |-> 0, sockets |-> <<>>, pending |-> {},
     called |-> "none"]
TaskIds == 1..MaxTasks

\* ---------------------------------------------------------------- helpers
SeqToSet(s) == {s[i] : i \in 1..Len(s)}

RECURSIVE filterOrder(_, _)
\* the members of set S in the order of sequence ord
filterOrder(ord, S) ==
    IF ord = <<>> THEN <<>>
    ELSE IF Head(ord) \in S THEN <<Head(ord)>> \o filterOrder(Tail(ord), S)
         ELSE filterOrder(Tail(ord), S)

\* group.participants.map(p => p.id._serialized)
participants(g) == filterOrder(MemberOrder, chatMembers[g])

\* monitoredGroups.has / .get
mgIndex(g) ==
    IF \E i \in 1..Len(monitoredGroups) : monitoredGroups[i].id = g
    THEN CHOOSE i \in 1..Len(monitoredGroups) : monitoredGroups[i].id = g
    ELSE 0

\* monitoredGroups.set(id, obj): an existing key keeps its place in the order
mgSet(mg, g, o, serial) ==
    IF \E i \in 1..Len(mg) : mg[i].id = g
    THEN [i \in 1..Len(mg) |-> IF mg[i].id = g THEN [mg[i] EXCEPT !.obj = o] ELSE mg[i]]
    ELSE Append(mg, [id |-> g, obj |-> o, serial |-> serial])

\* a faulty variant: monitoredGroups.clear()
mgClear(mg, g) == <<>>

\* monitoredGroups.delete(id)
mgDelete(mg, g) == SelectSeq(mg, LAMBDA e : e.id # g)

\* groupInfoStore.set / .delete
storeSet(st, g, v) == [x \in (DOMAIN st) \cup {g} |-> IF x = g THEN v ELSE st[x]]
storeDelete(st, g) == [x \in (DOMAIN st) \ {g} |-> st[x]]

\* a faulty variant: the new entry is not in baseline state
newGroupInfoSteady(members) ==
    [previousMessageIds |-> <<>>, previousMembers |-> members, isFirstRun |-> FALSE,
     observed |-> <<>>, fetched |-> <<>>]

\* a new groupInfo object: { previousMessageIds: new Set(),
\*   previousMembers: new Set(members), isFirstRun: true }
newGroupInfo(members) ==
    [previousMessageIds |-> <<>>, previousMembers |-> members, isFirstRun |-> TRUE,
     observed |-> <<>>, fetched |-> <<>>]

\* the observation history after the ids `ids` (the distinct ids of one fetch)
\* were fetched, in this order: they become the most recently fetched
observe(log, ids) ==
    SelectSeq(log, LAMBDA x : x \notin SeqToSet(ids)) \o ids

\* ----------------------------------------------------------------- fanout
RECURSIVE sendAllUntilClosed(_, _, _)
\* a faulty variant: no readyState test, send() throws on the first socket
\* that is not open and ends the forEach
sendAllUntilClosed(cs, inb, data) ==
    IF cs = <<>> THEN inb
    ELSE IF readyState[Head(cs)] # "OPEN" THEN inb
    ELSE sendAllUntilClosed(Tail(cs),
                            [inb EXCEPT ![Head(cs)] = @ (+) SetToBag({data})], data)

RECURSIVE sendAll(_, _, _)
\* wsClients.forEach(client => { if (client.readyState === WebSocket.OPEN)
\*                                 client.send(message); })
sendAll(cs, inb, data) ==
    IF cs = <<>> THEN inb
    ELSE sendAll(Tail(cs),
                 IF readyState[Head(cs)] = "OPEN"
                 THEN [inb EXCEPT ![Head(cs)] = @ (+) SetToBag({data})]
                 ELSE inb,
                 data)

\* broadcast(data): the inboxes after the call
broadcast(data) == sendAll(wsClients, inbox, data)

eventEnvelope(row) ==
    [type |-> "event", groupId |-> row.groupId, memberId |-> row.memberId,
     memberName |-> row.memberName, etype |-> row.type, timestamp |-> row.timestamp]

\* ----------------------------------------------------------------- SQLite
\* a faulty variant: the table has no PRIMARY KEY, the statement is a plain INSERT
insertPlain(tbl, row) == Append(tbl, row)

\* INSERT OR REPLACE INTO messages: id is the PRIMARY KEY, so the row of the
\* same id is removed and the new row gets a new rowid (it goes last).
insertOrReplace(tbl, row) ==
    Append(SelectSeq(tbl, LAMBDA r : r.id # row.id), row)

\* DELETE FROM events WHERE group_id = ? AND member_id = ? AND type = ? [AND date = ?]
deleteEvents(tbl, st) ==
    SelectSeq(tbl, LAMBDA r :
        ~ (/\ r.groupId = st.groupId
           /\ r.memberId = st.memberId
           /\ r.type = st.type
           /\ (st.useDate => r.date = st.date)))

\* db.run(`DELETE FROM events ...`, [...], () => { db.run(`INSERT INTO events ...`) ... })
\* notify: the callback also broadcasts the event (processMessage)
deleteThenInsert(row, useDate, notify) ==
    [stmt |-> "DELETE_EVENT", groupId |-> row.groupId, memberId |-> row.memberId,
     type |-> row.type, useDate |-> useDate, date |-> row.date, row |-> row,
     notify |-> notify]

\* sqlite3 runs a statement that was handed to it; statements of one Database
\* object are not serialized (no db.serialize around them), so any pending one
\* may run next. A DELETE's callback issues the INSERT.
DbExec(st) ==
    /\ BagIn(st, dbPending)
    /\ CASE st.stmt = "DELETE_EVENT" ->
              /\ events' = deleteEvents(events, st)
              /\ dbPending' = (dbPending (-) SetToBag({st}))
                                (+) SetToBag({[stmt |-> "INSERT_EVENT", row |-> st.row]})
              /\ inbox' = IF st.notify THEN broadcast(eventEnvelope(st.row)) ELSE inbox
              /\ UNCHANGED messages
         [] st.stmt = "INSERT_EVENT" ->
              /\ events' = Append(events, st.row)
              /\ dbPending' = dbPending (-) SetToBag({st})
              /\ UNCHANGED <<messages, inbox>>
         [] st.stmt = "UPSERT_MESSAGES" ->
              /\ messages' = insertOrReplace(messages, Head(st.rows))
              /\ dbPending' = (dbPending (-) SetToBag({st}))
                                (+) (IF Len(st.rows) > 1
                                     THEN SetToBag({[st EXCEPT !.rows = Tail(@)]})
                                     ELSE EmptyBag)
              /\ UNCHANGED <<events, inbox>>
    /\ UNCHANGED <<envVars, cliVars, regVars, wsClient, timers, tasks, counters,
                   wsClients, readyState, http>>

Sqlite == \E st \in BagToSet(dbPending) : DbExec(st)

\* ------------------------------------------------------------ environment
\* the wall clock advances
ClockUpTo(n) ==
    /\ now < n
    /\ now' = now + 1
    /\ UNCHANGED <<chatMembers, chatMsgs, envCount, pager, cliVars, regVars, wsClient, timers,
                   tasks, counters, dbVars, wsVars, http>>

ClockTick == ClockUpTo(MaxClock)

\* somebody posts a message in a group chat; ids are assigned in order
PostMessage(g, k) ==
    /\ envCount.msgs < MaxMsgs
    /\ chatMsgs' = [chatMsgs EXCEPT ![g] =
          Append(@, [id |-> envCount.msgs + 1, type |-> k.type, author |-> k.author,
                     subtype |-> k.subtype, recipient |-> k.recipient,
                     body |-> k.body, timestamp |-> now])]
    /\ envCount' = [envCount EXCEPT !.msgs = @ + 1]
    /\ UNCHANGED <<chatMembers, now, pager, cliVars, regVars, wsClient, timers, tasks, counters,
                   dbVars, wsVars, http>>

\* n text messages are posted in a group chat between two looks at it
PostBurst(g, n) ==
    /\ envCount.msgs + n <= MaxWindowMsgs
    /\ chatMsgs' = [chatMsgs EXCEPT ![g] = @ \o
          [i \in 1..n |-> [id |-> envCount.msgs + i, type |-> ChatKind.type,
                           author |-> ChatKind.author, subtype |-> ChatKind.subtype,
                           recipient |-> ChatKind.recipient, body |-> ChatKind.body,
                           timestamp |-> 0]]]
    /\ envCount' = [envCount EXCEPT !.msgs = @ + n]
    /\ UNCHANGED <<chatMembers, now, pager, cliVars, regVars, wsClient, timers, tasks, counters,
                   dbVars, wsVars, http>>

\* the author edits the text message at place i of a group chat: the message
\* keeps its id and its timestamp, its body changes
EditMessage(g, i) ==
    /\ envCount.edits < MaxEdits
    /\ i \in 1..Len(chatMsgs[g])
    /\ chatMsgs[g][i].type = "chat"
    /\ chatMsgs[g][i].body # "hi (edited)"
    /\ chatMsgs' = [chatMsgs EXCEPT ![g][i].body = "hi (edited)"]
    /\ envCount' = [envCount EXCEPT !.edits = @ + 1]
    /\ UNCHANGED <<chatMembers, now, pager, cliVars, regVars, wsClient, timers, tasks, counters,
                   dbVars, wsVars, http>>

\* a member joins or leaves a group at the collaborator
MemberChange(g, m) ==
    /\ envCount.changes < MaxMemberChanges
    /\ chatMembers' = [chatMembers EXCEPT ![g] =
          IF m \in @ THEN @ \ {m} ELSE @ \cup {m}]
    /\ envCount' = [envCount EXCEPT !.changes = @ + 1]
    /\ UNCHANGED <<chatMsgs, now, pager, cliVars, regVars, wsClient, timers, tasks, counters,
                   dbVars, wsVars, http>>

\* ------------------------------------------------------------------ tasks
\* An async handler in flight. kind: "tick" (a checkAllGroups run), "add" (a
\* POST /api/groups request), "ready" (the ready handler). last: the serial of
\* the Map entry the run's iterator visited last. The other fields are the
\* locals of the checkMessages call the handler awaits.
newTask(kind, req) ==
    [kind |-> kind, req |-> req, last |-> 0, pc |-> "none", g |-> "", obj |-> 0,
     cur |-> <<>>, rest |-> <<>>, msgs |-> <<>>, new |-> <<>>, todo |-> <<>>,
     processed |-> <<>>, chats |-> [x \in {} |-> {}],
     \* history of the run and of the pass, read by the properties only
     failed |-> {}, baseline |-> FALSE, prev |-> {}, emitted |-> {},
     prevCount |-> 0, prevIds |-> <<>>, absent |-> {}, sent |-> {}]

\* checkMessages(groupId, groupInfo) is called: it runs to `await client.getChats()`
startPass(tk, e) ==
    [newTask(tk.kind, tk.req) EXCEPT !.last = e.serial, !.pc = "getChats",
                                     !.g = e.id, !.obj = e.obj,
                                     !.failed = tk.failed]

\* for (const [groupId, groupInfo] of monitoredGroups): the entry after the one
\* visited last, 0 at the end of the Map
nextEntry(mg, last) ==
    IF \E i \in 1..Len(mg) : mg[i].serial > last
    THEN CHOOSE i \in 1..Len(mg) :
            /\ mg[i].serial > last
            /\ \A j \in 1..(i - 1) : mg[j].serial <= last
    ELSE 0

\* checkAllGroups after `await checkMessages(...)` returned, or at its start
checkAllGroups(tk) ==
    LET i == nextEntry(monitoredGroups, tk.last)
    IN  IF i = 0 THEN Idle ELSE startPass(tk, monitoredGroups[i])

groupAddedEnvelope(g) == [type |-> "group_added", groupId |-> g]

\* checkMessages returns (normally or through its catch) to the handler that
\* awaits it: checkAllGroups goes on with the next group; POST /api/groups
\* broadcasts group_added and answers 200. inb: the inboxes so far in this step.
Return(t, tk, inb) ==
    IF tk.kind = "add"
    THEN /\ tasks' = [tasks EXCEPT ![t] = Idle]
         /\ inbox' = sendAll(wsClients, inb, groupAddedEnvelope(tk.g))
         /\ http' = http \cup {[status |-> "200", name |-> tk.req, groupId |-> tk.g]}
    ELSE /\ tasks' = [tasks EXCEPT ![t] = checkAllGroups(tk)]
         /\ inbox' = inb
         /\ http' = http

\* a faulty variant: checkMessages has no catch, the error ends the handler
\* that awaits it
catchRethrow(t, tk) ==
    /\ tasks' = [tasks EXCEPT ![t] = Idle]
    /\ inbox' = inbox
    /\ http' = http

\* checkMessages' catch (lines 1449-1452): the error is logged and the call
\* returns normally to the handler that awaits it
catchError(t, tk) == Return(t, [tk EXCEPT !.failed = @ \cup {tk.g}], inbox)

\* ---------------------------------------------------------- checkMessages
RECURSIVE joinNextUnguarded(_, _)
\* a faulty variant: the join loop does not look at isFirstRun
joinNextUnguarded(o, rest) ==
    IF rest = <<>> THEN <<>>
    ELSE IF Head(rest) \notin o.previousMembers THEN rest
         ELSE joinNextUnguarded(o, Tail(rest))

RECURSIVE joinNext(_, _)
\* the join loop up to its next await: the members from the first one with
\* !previousMembers.has(memberId) && !isFirstRun on
joinNext(o, rest) ==
    IF rest = <<>> THEN <<>>
    ELSE IF Head(rest) \notin o.previousMembers /\ ~o.isFirstRun THEN rest
         ELSE joinNext(o, Tail(rest))

RECURSIVE leaveNext(_, _, _)
\* the leave loop up to its next await
leaveNext(o, cur, rest) ==
    IF rest = <<>> THEN <<>>
    ELSE IF Head(rest) \notin cur /\ ~o.isFirstRun THEN rest
         ELSE leaveNext(o, cur, Tail(rest))

\* the leave loop, from the members `rest` of the Set it iterates
leaveLoop(tk, o, rest) ==
    LET r == leaveNext(o, SeqToSet(tk.cur), rest)
    IN  IF r # <<>> THEN [tk EXCEPT !.pc = "leaveEv", !.rest = r]
        ELSE [tk EXCEPT !.pc = "fetch", !.rest = <<>>]

\* the join loop, from the members tk.rest of currentMembers; when it ends
\* the leave loop starts on groupInfo.previousMembers as it is then
joinLoop(tk, o) ==
    LET r == joinNext(o, tk.rest)
    IN  IF r # <<>> THEN [tk EXCEPT !.pc = "joinEv", !.rest = r]
        ELSE leaveLoop(tk, o, filterOrder(MemberOrder, o.previousMembers))

\* lines 1380-1390: when the diff reaches `await group.fetchMessages`, it has
\* updated memberCount and replaced previousMembers by currentMembers
snapshotHeap(tk) ==
    IF tk.pc = "fetch"
    THEN [heap EXCEPT ![tk.obj].previousMembers = SeqToSet(tk.cur)]
    ELSE heap

snapshotStore(tk) ==
    IF tk.pc = "fetch" /\ tk.g \in DOMAIN groupInfoStore
    THEN [groupInfoStore EXCEPT ![tk.g].memberCount = Len(tk.cur)]
    ELSE groupInfoStore

\* createEvent(memberId, eventType, groupName, groupId); ok: getContactById resolved
createEvent(m, eventType, g, ok) ==
    [groupId |-> g, memberId |-> m,
     memberName |-> IF ok THEN pushname(m) ELSE "Unknown",
     type |-> eventType, timestamp |-> toISOString(now),
     date |-> dateOf(toISOString(now))]

\* `await client.getChats()` of checkMessages returns: "ok", "missing" (the
\* group is not among the chats) or "throw"
PassGetChats(t, res) ==
    LET tk == tasks[t]
        ps == participants(tk.g)
        nx == joinLoop([tk EXCEPT !.cur = ps, !.rest = ps,
                                  !.baseline = heap[tk.obj].isFirstRun,
                                  !.prev = heap[tk.obj].previousMembers,
                                  !.prevCount = IF tk.g \in DOMAIN groupInfoStore
                                                THEN groupInfoStore[tk.g].memberCount
                                                ELSE 0,
                                  !.prevIds = heap[tk.obj].previousMessageIds],
                       heap[tk.obj])
    IN  /\ tk.kind \in {"tick", "add"}
        /\ tk.pc = "getChats"
        /\ IF res = "ok"
           THEN /\ tasks' = [tasks EXCEPT ![t] = nx]
                /\ heap' = snapshotHeap(nx)
                /\ groupInfoStore' = snapshotStore(nx)
                /\ UNCHANGED <<inbox, http>>
           ELSE /\ IF res = "throw" THEN catchError(t, tk) ELSE Return(t, tk, inbox)
                /\ UNCHANGED <<heap, groupInfoStore>>
        /\ UNCHANGED <<envVars, cliVars, GROUP_NAMES, messageLimit, wsClient, configFile, monitoredGroups,
                       timers, counters, dbVars, wsClients, readyState>>

\* `await createEvent(...)` of the join loop (etype JOIN) or of the leave loop
\* (LEAVE) returns: the event is handed to SQLite and broadcast, the loop goes on
PassMemberEvent(t, ok) ==
    LET tk == tasks[t]
        etype == IF tk.pc = "joinEv" THEN "JOIN" ELSE "LEAVE"
        ev == createEvent(Head(tk.rest), etype, tk.g, ok)
        tl == [tk EXCEPT !.rest = Tail(tk.rest),
                         !.emitted = @ \cup {[type |-> etype, memberId |-> Head(tk.rest),
                                              via |-> "diff"]}]
        nx == IF tk.pc = "joinEv" THEN joinLoop(tl, heap[tk.obj])
              ELSE leaveLoop(tl, heap[tk.obj], tl.rest)
    IN  /\ tk.kind \in {"tick", "add"}
        /\ tk.pc \in {"joinEv", "leaveEv"}
        /\ dbPending' = dbPending (+) SetToBag({deleteThenInsert(ev, FALSE, FALSE)})
        /\ inbox' = broadcast(eventEnvelope(ev))
        /\ tasks' = [tasks EXCEPT ![t] = nx]
        /\ heap' = snapshotHeap(nx)
        /\ groupInfoStore' = snapshotStore(nx)
        /\ UNCHANGED <<envVars, cliVars, GROUP_NAMES, messageLimit, wsClient, configFile, monitoredGroups,
                       timers, counters, messages, events, wsClients, readyState, http>>

\* group.fetchMessages({ limit }): the last `limit` messages of the chat
fetchMessages(g, limit) ==
    LET ms == chatMsgs[g]
    IN  IF Len(ms) > limit THEN SubSeq(ms, Len(ms) - limit + 1, Len(ms)) ELSE ms

\* lines 1392-1400: the fetched messages whose id is not in previousMessageIds
newMessagesOf(msgs, ids) ==
    SelectSeq(msgs, LAMBDA m : m.id \notin SeqToSet(ids))

msgIds(msgs) == [i \in 1..Len(msgs) |-> msgs[i].id]

\* a faulty variant: the clean-up keeps the first WINDOW_CAP ids (slice(0, 100))
cleanUpKeepOldest(ids) ==
    IF Len(ids) > WINDOW_CAP THEN SubSeq(ids, 1, WINDOW_CAP) ELSE ids

\* lines 1443-1447: keep the last WINDOW_CAP ids, in insertion order
cleanUp(ids) ==
    IF Len(ids) > WINDOW_CAP
    THEN SubSeq(ids, Len(ids) - WINDOW_CAP + 1, Len(ids))
    ELSE ids

\* processMessage(msg, groupName, groupId); ok: the contact lookup resolved.
\* row: the processed message; stmts: what it hands to SQLite.
\* a faulty variant: the CERTIFICATE event is dated by the wall clock
certificateEventNow(msg, g, senderPhone, senderName) ==
    [groupId |-> g, memberId |-> senderPhone, memberName |-> senderName,
     type |-> "CERTIFICATE", timestamp |-> toISOString(now),
     date |-> dateOf(toISOString(now))]

\* lines 1600-1612: the CERTIFICATE event of a voice recording; memberIdForCert
\* is senderPhone, timestampISO and eventDate are the message's
certificateEvent(msg, g, senderPhone, senderName) ==
    [groupId |-> g, memberId |-> senderPhone, memberName |-> senderName,
     type |-> "CERTIFICATE", timestamp |-> toISOString(msg.timestamp),
     date |-> dateOf(toISOString(msg.timestamp))]

processMessage(msg, g, ok) ==
    LET iso == toISOString(msg.timestamp)
    IN  IF msg.type \in {"notification", "notification_template", "group_notification"}
        THEN LET memberId == msg.recipient
                 memberName == IF ok THEN pushname(memberId) ELSE phoneOf(memberId)
                 eventType ==
                     IF msg.subtype \in {"add", "invite", "group_invite_link"} THEN "JOIN"
                     ELSE IF msg.subtype \in {"remove", "leave"} THEN "LEAVE" ELSE ""
                 notificationMessage ==
                     IF msg.body # "" THEN <<msg.body>>
                     ELSE IF memberId # "" /\ eventType = "JOIN"
                     THEN <<memberName, IF msg.subtype = "group_invite_link"
                                        THEN " joined via group link" ELSE " joined">>
                     ELSE IF memberId # "" /\ eventType = "LEAVE"
                     THEN <<memberName, " left">>
                     ELSE <<"Group notification">>
             IN  [row |-> [id |-> msg.id, groupId |-> g, sender |-> "System",
                           senderId |-> "", message |-> notificationMessage,
                           timestamp |-> iso],
                  stmts |->
                     IF memberId # "" /\ eventType # ""
                     THEN SetToBag({deleteThenInsert(
                              [groupId |-> g, memberId |-> memberId,
                               memberName |-> memberName, type |-> eventType,
                               timestamp |-> iso, date |-> dateOf(iso)],
                              FALSE, TRUE)})
                     ELSE EmptyBag]
        ELSE LET senderPhone == IF msg.author # "" THEN phoneOf(msg.author) ELSE "Unknown"
                 senderName ==
                     IF msg.author = "" THEN "Unknown"
                     ELSE IF ok THEN pushname(msg.author) ELSE senderPhone
                 body ==
                     IF msg.body # "" THEN <<msg.body>>
                     ELSE IF msg.type \in {"ptt", "audio"} THEN <<"<", msg.type, ">">>
                     ELSE <<"">>
             IN  [row |-> [id |-> msg.id, groupId |-> g, sender |-> senderName,
                           senderId |-> msg.author, message |-> body,
                           timestamp |-> iso],
                  stmts |->
                     IF msg.type \in {"ptt", "audio"}
                     THEN SetToBag({deleteThenInsert(
                              certificateEvent(msg, g, senderPhone, senderName),
                              TRUE, TRUE)})
                     ELSE EmptyBag]

\* the events a processMessage call handed to SQLite, as the pass's history
fromMessage(stmts) ==
    {[type |-> st.type, memberId |-> st.memberId, via |-> "message"] :
        st \in BagToSet(stmts)}

messageEnvelope(row) ==
    [type |-> "message", groupId |-> row.groupId, msgId |-> row.id, sender |-> row.sender]

\* insertStmt.run(...) for each processed message, then insertStmt.finalize()
upsertAll(rows) ==
    IF rows = <<>> THEN EmptyBag
    ELSE SetToBag({[stmt |-> "UPSERT_MESSAGES", rows |-> rows]})

\* a faulty variant: the try block ends without `groupInfo.isFirstRun = false`
endOfPassBaseline(h, obj, clearFirstRun) ==
    [h EXCEPT ![obj].previousMessageIds = cleanUp(@)]

\* the end of checkMessages' try block: isFirstRun = false where the branch
\* sets it, then the clean-up of the window
endOfPass(h, obj, clearFirstRun) ==
    [h EXCEPT ![obj].isFirstRun = IF clearFirstRun THEN FALSE ELSE @,
              ![obj].previousMessageIds = cleanUp(@)]

\* `await group.fetchMessages(...)` returns (or throws)
PassFetch(t, ok) ==
    LET tk == tasks[t]
        o == heap[tk.obj]
        msgs == fetchMessages(tk.g, messageLimit)
        new == newMessagesOf(msgs, o.previousMessageIds)
        h1 == [heap EXCEPT ![tk.obj].previousMessageIds = @ \o msgIds(new),
                           ![tk.obj].observed = observe(@, msgIds(msgs)),
                           ![tk.obj].fetched = msgs]
    IN  /\ tk.kind \in {"tick", "add"}
        /\ tk.pc = "fetch"
        /\ IF ~ok
           THEN catchError(t, tk) /\ UNCHANGED heap
           ELSE IF (new # <<>> \/ o.isFirstRun) /\ msgs # <<>>
           THEN /\ tasks' = [tasks EXCEPT ![t] =
                       [tk EXCEPT !.pc = "proc", !.msgs = msgs, !.new = new,
                                  !.todo = msgs, !.processed = <<>>,
                                  !.absent = SeqToSet(msgIds(msgs))
                                                \ SeqToSet(o.previousMessageIds)]]
                /\ heap' = h1
                /\ UNCHANGED <<inbox, http>>
           ELSE /\ heap' = endOfPass(h1, tk.obj, new # <<>> \/ o.isFirstRun)
                /\ Return(t, tk, inbox)
        /\ UNCHANGED <<envVars, cliVars, GROUP_NAMES, messageLimit, wsClient, configFile, monitoredGroups,
                       groupInfoStore, timers, counters, dbVars, wsClients, readyState>>

\* `await processMessage(msg, ...)` of the loop over all fetched messages
\* returns (lines 1405-1410); after the last one the rows are handed to the
\* prepared INSERT OR REPLACE and isFirstRun decides what follows
PassProcess(t, ok) ==
    LET tk == tasks[t]
        pm == processMessage(Head(tk.todo), tk.g, ok)
        rows == Append(tk.processed, pm.row)
        em == tk.emitted \cup fromMessage(pm.stmts)
        last == Len(tk.todo) = 1
        first == heap[tk.obj].isFirstRun
    IN  /\ tk.kind \in {"tick", "add"}
        /\ tk.pc = "proc"
        /\ dbPending' = dbPending (+) pm.stmts (+) (IF last THEN upsertAll(rows) ELSE EmptyBag)
        /\ IF ~last
           THEN /\ tasks' = [tasks EXCEPT ![t] =
                       [tk EXCEPT !.todo = Tail(@), !.processed = rows,
                                  !.emitted = em]]
                /\ UNCHANGED <<heap, inbox, http>>
           ELSE IF ~first /\ tk.new # <<>>
           THEN /\ tasks' = [tasks EXCEPT ![t] =
                       [tk EXCEPT !.pc = "bcast", !.todo = tk.new, !.processed = rows,
                                  !.emitted = em]]
                /\ UNCHANGED <<heap, inbox, http>>
           ELSE /\ heap' = endOfPass(heap, tk.obj, TRUE)
                /\ Return(t, tk, inbox)
        /\ UNCHANGED <<envVars, cliVars, GROUP_NAMES, messageLimit, wsClient, configFile, monitoredGroups,
                       groupInfoStore, timers, counters, messages, events, wsClients,
                       readyState>>

\* `await processMessage(msg, ...)` of the loop over the new messages returns
\* (lines 1428-1433): the message is broadcast
PassBroadcast(t, ok) ==
    LET tk == tasks[t]
        pm == processMessage(Head(tk.todo), tk.g, ok)
        inb == broadcast(messageEnvelope(pm.row))
    IN  /\ tk.kind \in {"tick", "add"}
        /\ tk.pc = "bcast"
        /\ dbPending' = dbPending (+) pm.stmts
        /\ IF Len(tk.todo) > 1
           THEN /\ tasks' = [tasks EXCEPT ![t] =
                       [tk EXCEPT !.todo = Tail(@),
                                  !.emitted = @ \cup fromMessage(pm.stmts),
                                  !.sent = @ \cup {pm.row.id}]]
                /\ inbox' = inb
                /\ UNCHANGED <<heap, http>>
           ELSE /\ heap' = endOfPass(heap, tk.obj, TRUE)
                /\ Return(t, tk, inb)
        /\ UNCHANGED <<envVars, cliVars, GROUP_NAMES, messageLimit, wsClient, configFile, monitoredGroups,
                       groupInfoStore, timers, counters, messages, events, wsClients,
                       readyState>>

\* a checkMessages call goes on: one of its awaits returns. results: how
\* getChats may end; fetchOks: whether fetchMessages may reject; contactOks:
\* whether contact lookups may reject
CheckMessages(results, fetchOks, contactOks) ==
    \E t \in TaskIds :
        \/ \E res \in results : PassGetChats(t, res)
        \/ \E ok \in fetchOks : PassFetch(t, ok)
        \/ \E ok \in contactOks : PassProcess(t, ok)
        \/ \E ok \in contactOks : PassBroadcast(t, ok)

MemberEvents(contactOks) ==
    \E t \in TaskIds, ok \in contactOks : PassMemberEvent(t, ok)

\* -------------------------------------------------------------- scheduler
freeSlot == CHOOSE t \in TaskIds : tasks[t] = Idle /\ \A u \in 1..(t - 1) : tasks[u] # Idle
hasFreeSlot == \E t \in TaskIds : tasks[t] = Idle

\* a timer set by setInterval(checkAllGroups, CHECK_INTERVAL) fires: a new
\* checkAllGroups() call starts, whatever the earlier calls are doing
Tick ==
    /\ timers > 0
    /\ hasFreeSlot
    /\ tasks' = [tasks EXCEPT ![freeSlot] = checkAllGroups(newTask("tick", <<>>))]
    /\ counters' = [counters EXCEPT !.ticks = @ + 1]
    /\ UNCHANGED <<envVars, cliVars, regVars, wsClient, timers, dbVars, wsVars, http>>

\* the timer fires at most n times
TickUpTo(n) == counters.ticks < n /\ Tick

\* ---------------------------------------------------------- client events
\* client.on('ready'): up to `await initializeGroups()`, which awaits getChats.
\* The collaborator signals readiness at start-up and again after it was
\* disconnected.
ClientReady ==
    /\ clientState \in {"starting", "disconnected"}
    /\ envCount.readies < MaxReadies
    /\ hasFreeSlot
    /\ clientState' = "ready"
    /\ isClientReady' = TRUE
    /\ envCount' = [envCount EXCEPT !.readies = @ + 1]
    /\ inbox' = broadcast([type |-> "ready"])
    /\ tasks' = [tasks EXCEPT ![freeSlot] = [newTask("ready", <<>>) EXCEPT !.pc = "initChats"]]
    /\ UNCHANGED <<chatMembers, chatMsgs, now, pager, unhandled, regVars, wsClient, timers,
                   counters, dbVars, wsClients, readyState, http>>

RECURSIVE initSkip(_)
\* initializeGroups' loop up to the next configured name that matches a group
initSkip(names) ==
    IF names = <<>> THEN <<>>
    ELSE IF findGroup(Head(names)) # "none" THEN names ELSE initSkip(Tail(names))

\* the ready handler goes on after initializeGroups' getChats or
\* cacheGroupMembers returned: the next matching group is registered (lines
\* 1229-1250), or the loop is over and monitoring starts (lines 1133-1142)
ReadyStep(t, ok) ==
    LET tk == tasks[t]
        chats == IF tk.pc = "initChats" THEN chatMembers ELSE tk.chats
        names == initSkip(IF tk.pc = "initChats" THEN GROUP_NAMES ELSE tk.rest)
        g == findGroup(Head(names))
        members == chats[g]
        o == Len(heap) + 1
    IN  /\ tk.kind = "ready"
        /\ tk.pc \in {"initChats", "cache"}
        /\ IF tk.pc = "initChats" /\ ~ok
           THEN \* getChats rejects: nothing awaits the ready handler's promise
                /\ tasks' = [tasks EXCEPT ![t] = Idle]
                /\ unhandled' = unhandled + 1
                /\ UNCHANGED <<monitoredGroups, heap, groupInfoStore, timers, counters>>
           ELSE IF names # <<>>
           THEN /\ groupInfoStore' = storeSet(groupInfoStore, g,
                       [name |-> chatName(g), memberCount |-> Cardinality(members)])
                /\ monitoredGroups' = mgSet(monitoredGroups, g, o, counters.serial + 1)
                /\ heap' = Append(heap, newGroupInfo(members))
                /\ counters' = [counters EXCEPT !.serial = @ + 1]
                /\ tasks' = [tasks EXCEPT ![t] =
                       [tk EXCEPT !.pc = "cache", !.rest = Tail(names), !.chats = chats]]
                /\ UNCHANGED <<unhandled, timers>>
           ELSE IF monitoredGroups = <<>>
           THEN /\ tasks' = [tasks EXCEPT ![t] = Idle]
                /\ UNCHANGED <<unhandled, monitoredGroups, heap, groupInfoStore, timers,
                               counters>>
           ELSE /\ tasks' = [tasks EXCEPT ![t] = checkAllGroups(newTask("tick", <<>>))]
                /\ timers' = timers + 1
                /\ UNCHANGED <<unhandled, monitoredGroups, heap, groupInfoStore, counters>>
        /\ UNCHANGED <<envVars, clientState, isClientReady, GROUP_NAMES, messageLimit, wsClient, configFile,
                       dbVars, wsVars, http>>

\* client.on('disconnected')
ClientDisconnected ==
    /\ clientState = "ready"
    /\ clientState' = "disconnected"
    /\ isClientReady' = FALSE
    /\ inbox' = broadcast([type |-> "disconnected"])
    /\ UNCHANGED <<envVars, unhandled, regVars, wsClient, timers, tasks, counters, dbVars,
                   wsClients, readyState, http>>

\* client.on('group_join') / client.on('group_leave') with recipientIds = [m]:
\* for a monitored group the handler runs to `await createEvent(...)`
GroupNotification(etype, g, m) ==
    /\ clientState = "ready"
    /\ envCount.pushes < MaxPushes
    /\ hasFreeSlot
    /\ envCount' = [envCount EXCEPT !.pushes = @ + 1]
    /\ tasks' = IF mgIndex(g) # 0
                THEN [tasks EXCEPT ![freeSlot] =
                        [newTask(etype, <<>>) EXCEPT !.pc = "pushEv", !.g = g,
                                                     !.rest = <<m>>]]
                ELSE tasks
    /\ UNCHANGED <<chatMembers, chatMsgs, now, pager, cliVars, regVars, wsClient, timers,
                   counters, dbVars, wsVars, http>>

\* `await createEvent(...)` of a group_join / group_leave handler returns: the
\* event is handed to SQLite and broadcast, the loop over recipientIds goes on
PushEvent(t, ok) ==
    LET tk == tasks[t]
        ev == createEvent(Head(tk.rest), tk.kind, tk.g, ok)
    IN  /\ tk.kind \in {"JOIN", "LEAVE"}
        /\ tk.pc = "pushEv"
        /\ dbPending' = dbPending (+) SetToBag({deleteThenInsert(ev, FALSE, FALSE)})
        /\ inbox' = broadcast(eventEnvelope(ev))
        /\ tasks' = [tasks EXCEPT ![t] =
               IF Len(tk.rest) > 1 THEN [tk EXCEPT !.rest = Tail(@)] ELSE Idle]
        /\ UNCHANGED <<envVars, cliVars, regVars, wsClient, timers, counters, messages, events,
                       wsClients, readyState, http>>

\* ------------------------------------------------------- POST /api/groups
respond(status, name, g) == http \cup {[status |-> status, name |-> name, groupId |-> g]}

\* Array.from(groupInfoStore.values()).find(
\*     g => g.name.toLowerCase() === groupName.toLowerCase())
existingGroup(groupName) ==
    \E g \in DOMAIN groupInfoStore :
        toLowerCase(groupInfoStore[g].name) = toLowerCase(groupName)

\* the request arrives: lines 846-878, up to `await client.getChats()`
AddGroup(name) ==
    LET groupName == trim(name)
    IN  /\ counters.adds < MaxAdds
        /\ hasFreeSlot
        /\ counters' = [counters EXCEPT !.adds = @ + 1]
        /\ IF groupName = <<>>
           THEN http' = respond("400", name, "") /\ UNCHANGED tasks
           ELSE IF ~isClientReady
           THEN http' = respond("503", name, "") /\ UNCHANGED tasks
           ELSE IF existingGroup(groupName)
           THEN http' = respond("409", name, "") /\ UNCHANGED tasks
           ELSE /\ tasks' = [tasks EXCEPT ![freeSlot] =
                       [newTask("add", name) EXCEPT !.pc = "addChats"]]
                /\ UNCHANGED http
        /\ UNCHANGED <<envVars, cliVars, regVars, wsClient, timers, dbVars, wsVars>>

\* at most n requests are served
AddGroupUpTo(n, name) == counters.adds < n /\ AddGroup(name)

\* currentConfig.groups.includes(group.name) ? unchanged : push(group.name)
configPush(cfg, name) ==
    IF \E i \in 1..Len(cfg) : cfg[i] = name THEN cfg ELSE Append(cfg, name)

\* getChats of POST /api/groups returns: 404, or the group is registered
\* (lines 890-917) and checkMessages is called for it (line 921); a rejection
\* is answered 500 by the handler's catch
AddGetChats(t, ok) ==
    LET tk == tasks[t]
        g == findGroup(trim(tk.req))
        members == chatMembers[g]
        o == Len(heap) + 1
        mg == mgSet(monitoredGroups, g, o, counters.serial + 1)
    IN  /\ tk.kind = "add"
        /\ tk.pc = "addChats"
        /\ IF ~ok
           THEN /\ http' = respond("500", tk.req, "")
                /\ tasks' = [tasks EXCEPT ![t] = Idle]
                /\ UNCHANGED <<regVars, wsClient, counters>>
           ELSE IF g = "none"
           THEN /\ http' = respond("404", tk.req, "")
                /\ tasks' = [tasks EXCEPT ![t] = Idle]
                /\ UNCHANGED <<regVars, wsClient, counters>>
           ELSE /\ groupInfoStore' = storeSet(groupInfoStore, g,
                       [name |-> chatName(g), memberCount |-> Cardinality(members)])
                /\ monitoredGroups' = mg
                /\ heap' = Append(heap, newGroupInfo(members))
                /\ counters' = [counters EXCEPT !.serial = @ + 1]
                /\ configFile' = configPush(configFile, chatName(g))
                /\ tasks' = [tasks EXCEPT ![t] = startPass(tk, mg[CHOOSE i \in 1..Len(mg) : mg[i].id = g])]
                /\ UNCHANGED <<http, GROUP_NAMES, messageLimit, wsClient>>
        /\ UNCHANGED <<envVars, cliVars, timers, dbVars, wsVars>>

\* ---------------------------------------------- DELETE /api/groups/:groupId
RemoveGroup(g) ==
    /\ IF g \notin DOMAIN groupInfoStore
       THEN /\ http' = respond("404", <<>>, g)
            /\ UNCHANGED <<regVars, wsClient>>
       ELSE /\ monitoredGroups' = mgDelete(monitoredGroups, g)
            /\ groupInfoStore' = storeDelete(groupInfoStore, g)
            /\ configFile' = SelectSeq(configFile, LAMBDA n : n # groupInfoStore[g].name)
            /\ http' = respond("200", <<>>, g)
            /\ UNCHANGED <<GROUP_NAMES, messageLimit, wsClient, heap>>
    /\ UNCHANGED <<envVars, cliVars, timers, tasks, counters, dbVars, wsVars>>

\* -------------------------------------------------------------- WebSocket
\* a faulty variant: the socket joins wsClients and is sent nothing
WsConnectSilent(c) ==
    /\ readyState[c] = "NONE"
    /\ wsClients' = Append(wsClients, c)
    /\ readyState' = [readyState EXCEPT ![c] = "OPEN"]
    /\ UNCHANGED <<envVars, cliVars, regVars, wsClient, timers, tasks, counters, dbVars, inbox,
                   http>>

\* wss.on('connection'): the socket joins wsClients and is sent `connected`
\* with groups: Array.from(groupInfoStore.values())
WsConnect(c) ==
    /\ readyState[c] = "NONE"
    /\ wsClients' = Append(wsClients, c)
    /\ readyState' = [readyState EXCEPT ![c] = "OPEN"]
    /\ inbox' = [inbox EXCEPT ![c] = @ (+) SetToBag(
          {[type |-> "connected", groups |-> groupInfoStore]})]
    /\ UNCHANGED <<envVars, cliVars, regVars, wsClient, timers, tasks, counters, dbVars, http>>

\* the peer starts closing: readyState leaves OPEN before 'close' is emitted
WsClosing(c) ==
    /\ readyState[c] = "OPEN"
    /\ readyState' = [readyState EXCEPT ![c] = "CLOSING"]
    /\ UNCHANGED <<envVars, cliVars, regVars, wsClient, timers, tasks, counters, dbVars,
                   wsClients, inbox, http>>

\* a faulty variant: the close and error handlers leave wsClients as it is
WsCloseKept(c) ==
    /\ readyState[c] \in {"OPEN", "CLOSING"}
    /\ readyState' = [readyState EXCEPT ![c] = "CLOSED"]
    /\ UNCHANGED <<envVars, cliVars, regVars, wsClient, timers, tasks, counters, dbVars,
                   wsClients, inbox, http>>

\* ws.on('close') / ws.on('error'): wsClients.delete(ws)
WsClose(c) ==
    /\ readyState[c] \in {"OPEN", "CLOSING"}
    /\ wsClients' = SelectSeq(wsClients, LAMBDA x : x # c)
    /\ readyState' = [readyState EXCEPT ![c] = "CLOSED"]
    /\ UNCHANGED <<envVars, cliVars, regVars, wsClient, timers, tasks, counters, dbVars,
                   inbox, http>>

\* --------------------------------------------------------- GET /api/events
\* SQLite compares TEXT values byte by byte (BINARY collation); the dates and
\* timestamps here are digit strings, whose bytes are ordered as the digits
charCode(c) == CHOOSE i \in 1..Len(Digits) : Digits[i] = c

RECURSIVE textLess(_, _)
textLess(a, b) ==
    IF b = <<>> THEN FALSE
    ELSE IF a = <<>> THEN TRUE
    ELSE IF Head(a) # Head(b) THEN charCode(Head(a)) < charCode(Head(b))
    ELSE textLess(Tail(a), Tail(b))

textLeq(a, b) == a = b \/ textLess(a, b)

\* a faulty variant: both bounds excluded
betweenExclusive(x, lo, hi) == textLess(lo, x) /\ textLess(x, hi)

\* x BETWEEN lo AND hi
between(x, lo, hi) == textLeq(lo, x) /\ textLeq(x, hi)

\* String.prototype.indexOf(','), counted from 1; 0 when there is none
indexOfComma(s) ==
    IF \E i \in 1..Len(s) : s[i] = ","
    THEN CHOOSE i \in 1..Len(s) : s[i] = "," /\ \A j \in 1..(i - 1) : s[j] # ","
    ELSE 0

\* const [startDate, endDate] = date.split(',')
startDate(date) == SubSeq(date, 1, indexOfComma(date) - 1)
endDate(date) ==
    LET rest == SubSeq(date, indexOfComma(date) + 1, Len(date))
    IN  IF indexOfComma(rest) = 0 THEN rest ELSE SubSeq(rest, 1, indexOfComma(rest) - 1)

\* the WHERE clause built from the query's date and memberId (both optional)
whereClause(r, date, memberId) ==
    /\ date # <<>> =>
          IF indexOfComma(date) # 0
          THEN between(r.date, startDate(date), endDate(date))
          ELSE r.date = date
    /\ memberId # "" => r.memberId = memberId

\* the rows of the table with their id (AUTOINCREMENT: the place in id order)
withIds(tbl) ==
    [i \in 1..Len(tbl) |->
        [id |-> i, groupId |-> tbl[i].groupId, memberId |-> tbl[i].memberId,
         memberName |-> tbl[i].memberName, type |-> tbl[i].type,
         timestamp |-> tbl[i].timestamp, date |-> tbl[i].date]]

RECURSIVE orderByTimestampDesc(_)
\* ORDER BY timestamp DESC; rows of one timestamp come out by descending id,
\* as the backward scan of idx_events_timestamp delivers them
orderByTimestampDesc(rows) ==
    IF rows = <<>> THEN <<>>
    ELSE LET first == CHOOSE i \in 1..Len(rows) : \A j \in 1..Len(rows) :
                          \/ textLess(rows[j].timestamp, rows[i].timestamp)
                          \/ rows[j].timestamp = rows[i].timestamp /\ rows[j].id <= rows[i].id
         IN  <<rows[first]>> \o
             orderByTimestampDesc(SubSeq(rows, 1, first - 1) \o
                                  SubSeq(rows, first + 1, Len(rows)))

\* LIMIT ? OFFSET ?
limitOffset(rows, limit, offset) ==
    SubSeq(rows, offset + 1, IF offset + limit < Len(rows) THEN offset + limit ELSE Len(rows))

\* app.get('/api/events'): the response to a query; limit 0 stands for a
\* missing or zero limit parameter (parseInt(req.query.limit) || 100)
listEvents(tbl, date, memberId, limitParam, offset) ==
    LET limit == IF limitParam = 0 THEN 100 ELSE limitParam
        matching == SelectSeq(withIds(tbl), LAMBDA r : whereClause(r, date, memberId))
        total == Len(matching)
    IN  [events |-> limitOffset(orderByTimestampDesc(matching), limit, offset),
         total |-> total, limit |-> limit, offset |-> offset,
         hasMore |-> offset + limit < total]

NoPager == [phase |-> "none"]

\* the dashboard's request is answered; it asks for the next page while hasMore
ListEvents ==
    LET res == listEvents(events, pager.date, "", pager.limit, pager.offset)
    IN  /\ pager.phase = "paging"
        /\ pager' = [pager EXCEPT !.items = @ \o res.events,
                                  !.offset = @ + res.limit,
                                  !.phase = IF res.hasMore THEN "paging" ELSE "done"]
        /\ UNCHANGED <<chatMembers, chatMsgs, now, envCount, cliVars, regVars, wsClient, timers,
                       tasks, counters, dbVars, wsVars, http>>

\* ------------------------------------------------------------------- Init
connectedEnvelope == [type |-> "connected", groups |-> <<>>]

\* The server has started with config.groups = names; the connections cs have
\* been accepted (each was sent `connected`); the messages table holds msgs
\* and the events table holds tbl.
InitStore(names, cs, msgs, tbl, pg) ==
    /\ chatMembers = [g \in GroupIds |-> {"a@c"}]
    /\ chatMsgs = [g \in GroupIds |-> <<>>]
    /\ now = 0
    /\ envCount = [msgs |-> 0, changes |-> 0, readies |-> 0, pushes |-> 0, edits |-> 0]
    /\ pager = pg
    /\ clientState = "starting"
    /\ isClientReady = FALSE
    /\ unhandled = 0
    /\ GROUP_NAMES = names
    /\ messageLimit = MESSAGE_LIMIT
    /\ wsClient = newWSClient
    /\ configFile = names
    /\ monitoredGroups = <<>>
    /\ heap = <<>>
    /\ groupInfoStore = [x \in {} |-> [name |-> <<>>, memberCount |-> 0]]
    /\ timers = 0
    /\ tasks = [t \in TaskIds |-> Idle]
    /\ counters = [ticks |-> 0, adds |-> 0, serial |-> 0]
    /\ messages = msgs
    /\ events = tbl
    /\ dbPending = EmptyBag
    /\ wsClients = cs
    /\ readyState = [c \in Conns |-> IF c \in SeqToSet(cs) THEN "OPEN" ELSE "NONE"]
    /\ inbox = [c \in Conns |->
                   IF c \in SeqToSet(cs) THEN SetToBag({connectedEnvelope}) ELSE EmptyBag]
    /\ http = {}

InitWith(names, cs, tbl, pg) == InitStore(names, cs, <<>>, tbl, pg)

InitBase(names, cs) == InitWith(names, cs, <<>>, NoPager)

\* ------------------------------------------------------------- monitor.js
\* The console monitor: the same registry, scheduler and passes without HTTP,
\* WebSocket and SQLite; what it prints and appends to its log files is not
\* part of the state.

\* process.exit(1): no timer fires and no handler goes on any more
exit ==
    /\ clientState' = "exited"
    /\ timers' = 0
    /\ tasks' = [t \in TaskIds |-> Idle]

\* client.on('ready'), monitor.js:70-74: up to `await initializeGroups()`,
\* which awaits getChats
MonitorReady ==
    /\ clientState = "starting"
    /\ envCount.readies < MaxReadies
    /\ hasFreeSlot
    /\ clientState' = "ready"
    /\ envCount' = [envCount EXCEPT !.readies = @ + 1]
    /\ tasks' = [tasks EXCEPT ![freeSlot] = [newTask("ready", <<>>) EXCEPT !.pc = "initChats"]]
    /\ UNCHANGED <<chatMembers, chatMsgs, now, pager, isClientReady, unhandled, regVars, wsClient,
                   timers, counters, dbVars, wsVars, http>>

RECURSIVE monitorInitialize(_, _)
\* initializeGroups' loop (monitor.js:161-185) over the names `names`, from
\* registry, objects and serial r
monitorInitialize(names, r) ==
    IF names = <<>> THEN r
    ELSE LET g == findGroup(Head(names))
         IN  IF g = "none" THEN monitorInitialize(Tail(names), r)
             ELSE monitorInitialize(Tail(names),
                      [mg |-> mgSet(r.mg, g, Len(r.heap) + 1, r.serial + 1),
                       heap |-> Append(r.heap, newGroupInfo(chatMembers[g])),
                       serial |-> r.serial + 1])

\* `await client.getChats()` of initializeGroups returns: the groups are
\* registered; with none registered the process exits (monitor.js:76-81),
\* otherwise checkAllGroups() is called and the timer is set (86-87)
MonitorInitializeGroups(t, ok) ==
    LET tk == tasks[t]
        r == monitorInitialize(GROUP_NAMES,
                 [mg |-> monitoredGroups, heap |-> heap, serial |-> counters.serial])
    IN  /\ tk.kind = "ready"
        /\ tk.pc = "initChats"
        /\ IF ~ok
           THEN /\ tasks' = [tasks EXCEPT ![t] = Idle]
                /\ unhandled' = unhandled + 1
                /\ UNCHANGED <<clientState, monitoredGroups, heap, timers, counters>>
           ELSE /\ monitoredGroups' = r.mg
                /\ heap' = r.heap
                /\ counters' = [counters EXCEPT !.serial = r.serial]
                /\ UNCHANGED unhandled
                /\ IF r.mg = <<>>
                   THEN exit
                   ELSE /\ tasks' = [tasks EXCEPT ![t] =
                               startPass(newTask("tick", <<>>), r.mg[nextEntry(r.mg, 0)])]
                        /\ timers' = timers + 1
                        /\ UNCHANGED clientState
        /\ UNCHANGED <<envVars, isClientReady, GROUP_NAMES, messageLimit, wsClient, configFile, groupInfoStore,
                       dbVars, wsVars, http>>

\* client.on('auth_failure'), monitor.js:90-93
MonitorAuthFailure ==
    /\ clientState = "starting"
    /\ exit
    /\ UNCHANGED <<envVars, isClientReady, unhandled, regVars, wsClient, counters, dbVars, wsVars,
                   http>>

\* client.on('disconnected'), monitor.js:95-101: setTimeout(..., 10000)
MonitorDisconnected ==
    /\ clientState = "ready"
    /\ clientState' = "disconnected"
    /\ UNCHANGED <<envVars, isClientReady, unhandled, regVars, wsClient, timers, tasks, counters,
                   dbVars, wsVars, http>>

\* the timeout fires: client.initialize()
MonitorReconnect ==
    /\ clientState = "disconnected"
    /\ clientState' = "starting"
    /\ UNCHANGED <<envVars, isClientReady, unhandled, regVars, wsClient, timers, tasks, counters,
                   dbVars, wsVars, http>>

\* `await client.getChats()` of monitor.js' checkMessages returns (199-256):
\* the membership diff is printed and logged, previousMembers is replaced;
\* a rejection goes to the catch (304-306)
MonitorPassGetChats(t, res) ==
    LET tk == tasks[t]
    IN  /\ tk.kind = "tick"
        /\ tk.pc = "getChats"
        /\ IF res = "ok"
           THEN /\ heap' = [heap EXCEPT ![tk.obj].previousMembers = chatMembers[tk.g]]
                /\ tasks' = [tasks EXCEPT ![t] = [tk EXCEPT !.pc = "fetch"]]
                /\ UNCHANGED <<inbox, http>>
           ELSE catchError(t, tk) /\ UNCHANGED heap
        /\ UNCHANGED <<envVars, cliVars, GROUP_NAMES, messageLimit, wsClient, configFile, monitoredGroups,
                       groupInfoStore, timers, counters, dbVars, wsClients, readyState>>

\* `await group.fetchMessages(...)` of monitor.js' checkMessages returns
\* (258-302): the new ids join previousMessageIds, the messages are printed
\* and saved to the group's file, isFirstRun is cleared, the window is cut
MonitorPassFetch(t, ok) ==
    LET tk == tasks[t]
        o == heap[tk.obj]
        msgs == fetchMessages(tk.g, messageLimit)
        new == newMessagesOf(msgs, o.previousMessageIds)
        h1 == [heap EXCEPT ![tk.obj].previousMessageIds = @ \o msgIds(new),
                           ![tk.obj].observed = observe(@, msgIds(msgs)),
                           ![tk.obj].fetched = msgs]
    IN  /\ tk.kind = "tick"
        /\ tk.pc = "fetch"
        /\ IF ok
           THEN heap' = endOfPass(h1, tk.obj, TRUE) /\ Return(t, tk, inbox)
           ELSE catchError(t, tk) /\ UNCHANGED heap
        /\ UNCHANGED <<envVars, cliVars, GROUP_NAMES, messageLimit, wsClient, configFile, monitoredGroups,
                       groupInfoStore, timers, counters, dbVars, wsClients, readyState>>

\* ------------------------------------------------------- the specifications
\* Scheduling: both groups are configured, a dashboard is connected, text
\* messages arrive in both chats, getChats and fetchMessages may fail.
Init == InitBase(<<cairo, giza>>, <<"c1">>)

Next ==
    \/ \E g \in GroupIds : PostMessage(g, ChatKind)
    \/ ClientReady
    \/ \E t \in TaskIds, ok \in BOOLEAN : ReadyStep(t, ok)
    \/ TickUpTo(MaxTicks)
    \/ CheckMessages({"ok", "throw"}, BOOLEAN, {TRUE})
    \/ Sqlite

Spec == Init /\ [][Next]_vars

\* Membership: one configured group whose members come and go while its
\* chat stays empty, so that a pass ends when fetchMessages returns.
InitDiff == InitBase(<<giza>>, <<"c1">>)

NextDiff ==
    \/ ClockTick
    \/ \E m \in Members : MemberChange("g2", m)
    \/ ClientReady
    \/ \E t \in TaskIds, ok \in BOOLEAN : ReadyStep(t, ok)
    \/ TickUpTo(MaxTicks)
    \/ \E t \in TaskIds : PassGetChats(t, "ok")
    \/ \E t \in TaskIds : PassFetch(t, TRUE)
    \/ MemberEvents(BOOLEAN)
    \/ Sqlite

SpecDiff == InitDiff /\ [][NextDiff]_vars

\* Abort: the membership scenario with a collaborator whose getChats and
\* fetchMessages calls may reject.
InitAbort == InitBase(<<giza>>, <<"c1">>)

NextAbort ==
    \/ \E m \in Members : MemberChange("g2", m)
    \/ ClientReady
    \/ \E t \in TaskIds : ReadyStep(t, TRUE)
    \/ TickUpTo(MaxTicks)
    \/ \E t \in TaskIds, res \in {"ok", "throw"} : PassGetChats(t, res)
    \/ \E t \in TaskIds, ok \in BOOLEAN : PassFetch(t, ok)
    \/ MemberEvents({TRUE})
    \/ Sqlite

SpecAbort == InitAbort /\ [][NextAbort]_vars

\* History: one configured group; voice messages and `member added`
\* notifications arrive in its chat, member b comes and goes.
InitHistory == InitBase(<<giza>>, <<"c1">>)

NextHistory ==
    \/ \E k \in {VoiceKind, AddedKind} : PostMessage("g2", k)
    \/ MemberChange("g2", "b@c")
    \/ ClientReady
    \/ \E t \in TaskIds, ok \in BOOLEAN : ReadyStep(t, ok)
    \/ TickUpTo(MaxHistoryTicks)
    \/ CheckMessages({"ok"}, {TRUE}, {TRUE})
    \/ MemberEvents({TRUE})
    \/ Sqlite

SpecHistory == InitHistory /\ [][NextHistory]_vars

\* Registry: nothing is configured; groups are added and removed over HTTP
\* while text messages arrive in the chat of "Cairo Team". No timer is armed
\* (the registry is empty at ready), so every pass is an immediate pass of
\* POST /api/groups.
InitAdd == InitBase(<<>>, <<"c1">>)

NextAdd ==
    \/ PostMessage("g1", ChatKind)
    \/ ClientReady
    \/ \E t \in TaskIds, ok \in BOOLEAN : ReadyStep(t, ok)
    \/ \E name \in ReqNames : AddGroup(name)
    \/ \E t \in TaskIds, ok \in BOOLEAN : AddGetChats(t, ok)
    \/ \E g \in GroupIds : RemoveGroup(g)
    \/ \E t \in TaskIds, res \in {"ok", "throw"} : PassGetChats(t, res)
    \/ \E t \in TaskIds, ok \in BOOLEAN : PassFetch(t, ok)
    \/ \E t \in TaskIds : PassProcess(t, TRUE)
    \/ Sqlite

SpecAdd == InitAdd /\ [][NextAdd]_vars

\* a text message of member a, as PostBurst posts them at instant 0
textMessage(id) ==
    [id |-> id, type |-> ChatKind.type, author |-> ChatKind.author,
     subtype |-> ChatKind.subtype, recipient |-> ChatKind.recipient,
     body |-> ChatKind.body, timestamp |-> 0]

\* Window: group "Giza" has been monitored for a while. Its chat holds
\* WindowStart text messages, which earlier passes observed in order, at most
\* MESSAGE_LIMIT new ones per pass, and stored; no pass is in flight and the
\* timer is armed. From there messages arrive one or two at a time up to
\* MaxWindowMsgs, and the timer fires up to MaxTicks times. SQLite's steps
\* are left out: they neither read nor write the window.
InitWindow ==
    /\ chatMembers = [g \in GroupIds |-> {"a@c"}]
    /\ chatMsgs = [g \in GroupIds |->
                      IF g = "g2" THEN [i \in 1..WindowStart |-> textMessage(i)] ELSE <<>>]
    /\ now = 0
    /\ envCount = [msgs |-> WindowStart, changes |-> 0, readies |-> 1, pushes |-> 0,
                   edits |-> 0]
    /\ pager = NoPager
    /\ clientState = "ready"
    /\ isClientReady = TRUE
    /\ unhandled = 0
    /\ GROUP_NAMES = <<giza>>
    /\ messageLimit = MESSAGE_LIMIT
    /\ wsClient = newWSClient
    /\ configFile = <<giza>>
    /\ monitoredGroups = <<[id |-> "g2", obj |-> 1, serial |-> 1]>>
    /\ heap = <<[previousMessageIds |-> [i \in 1..WindowStart |-> i],
                 previousMembers |-> {"a@c"}, isFirstRun |-> FALSE,
                 observed |-> [i \in 1..WindowStart |-> i], fetched |-> <<>>]>>
    /\ groupInfoStore = [g \in {"g2"} |-> [name |-> Giza, memberCount |-> 1]]
    /\ timers = 1
    /\ tasks = [t \in TaskIds |-> Idle]
    /\ counters = [ticks |-> 0, adds |-> 0, serial |-> 1]
    /\ messages = [i \in 1..WindowStart |-> processMessage(textMessage(i), "g2", TRUE).row]
    /\ events = <<>>
    /\ dbPending = EmptyBag
    /\ wsClients = <<>>
    /\ readyState = [c \in Conns |-> "NONE"]
    /\ inbox = [c \in Conns |-> EmptyBag]
    /\ http = {}

NextWindow ==
    \/ \E n \in {1, 2} : PostBurst("g2", n)
    \/ TickUpTo(MaxTicks)
    \/ CheckMessages({"ok"}, {TRUE}, {TRUE})

SpecWindow == InitWindow /\ [][NextWindow]_vars

\* the timer fires when no handler is in flight: the interval is longer than
\* a pass
TickAfterPass(n) == (\A t \in TaskIds : tasks[t] = Idle) /\ TickUpTo(n)

\* Limit: config.messageLimit is the default or BigLimit. The chat of "Giza"
\* holds BigLimit text messages and stays as it is; the baseline pass has
\* fetched the last messageLimit of them, stored them and trimmed the
\* window; a dashboard is connected, no pass is in flight and the timer is
\* armed. The timer fires up to MaxLimitTicks times, each time after the
\* pass before it has ended. SQLite's steps are left out: they neither read
\* nor write the window.
InitLimit ==
    \E limit \in {MESSAGE_LIMIT, BigLimit} :
        LET chat == [i \in 1..BigLimit |-> textMessage(i)]
            slice == SubSeq(chat, BigLimit - limit + 1, BigLimit)
        IN  /\ chatMembers = [g \in GroupIds |-> {"a@c"}]
            /\ chatMsgs = [g \in GroupIds |-> IF g = "g2" THEN chat ELSE <<>>]
            /\ now = 0
            /\ envCount = [msgs |-> BigLimit, changes |-> 0, readies |-> 1, pushes |-> 0,
                           edits |-> 0]
            /\ pager = NoPager
            /\ clientState = "ready"
            /\ isClientReady = TRUE
            /\ unhandled = 0
            /\ GROUP_NAMES = <<giza>>
            /\ messageLimit = limit
            /\ wsClient = newWSClient
            /\ configFile = <<giza>>
            /\ monitoredGroups = <<[id |-> "g2", obj |-> 1, serial |-> 1]>>
            /\ heap = <<[previousMessageIds |-> cleanUp(msgIds(slice)),
                         previousMembers |-> {"a@c"}, isFirstRun |-> FALSE,
                         observed |-> msgIds(slice), fetched |-> slice]>>
            /\ groupInfoStore = [g \in {"g2"} |-> [name |-> Giza, memberCount |-> 1]]
            /\ timers = 1
            /\ tasks = [t \in TaskIds |-> Idle]
            /\ counters = [ticks |-> 0, adds |-> 0, serial |-> 1]
            /\ messages = [i \in 1..limit |-> processMessage(slice[i], "g2", TRUE).row]
            /\ events = <<>>
            /\ dbPending = EmptyBag
            /\ wsClients = <<"c1">>
            /\ readyState = [c \in Conns |-> IF c = "c1" THEN "OPEN" ELSE "NONE"]
            /\ inbox = [c \in Conns |->
                           IF c = "c1" THEN SetToBag({connectedEnvelope}) ELSE EmptyBag]
            /\ http = {}

NextLimit ==
    \/ TickAfterPass(MaxLimitTicks)
    \/ CheckMessages({"ok"}, {TRUE}, {TRUE})

SpecLimit == InitLimit /\ [][NextLimit]_vars

\* Fanout: dashboards connect and go away while the client becomes ready and
\* disconnects; nothing is configured.
InitFanout == InitBase(<<>>, <<>>)

NextFanout ==
    \/ \E c \in Conns : WsConnect(c)
    \/ \E c \in Conns : WsClosing(c)
    \/ \E c \in Conns : WsClose(c)
    \/ ClientReady
    \/ \E t \in TaskIds, ok \in BOOLEAN : ReadyStep(t, ok)
    \/ ClientDisconnected

SpecFanout == InitFanout /\ [][NextFanout]_vars

\* Paging: the events table holds up to MaxRows JOIN events of member b, of
\* both groups, recorded on the days 09, 10 and 11; a dashboard asks for a
\* range of days and reads page after page.
EventDays == {9, 10, 11}

\* the row createEvent stores for a JOIN of b in group g on day d
storedEvent(g, d) ==
    [groupId |-> g, memberId |-> "b@c", memberName |-> pushname("b@c"), type |-> "JOIN",
     timestamp |-> toISOString(d * InstantsPerDay),
     date |-> dateOf(toISOString(d * InstantsPerDay))]

StoredEvents == {storedEvent(g, d) : g \in GroupIds, d \in EventDays}

RECURSIVE tablesUpTo(_)
\* the tables of at most n rows
tablesUpTo(n) ==
    IF n = 0 THEN {<<>>}
    ELSE tablesUpTo(n - 1) \cup
         {Append(tbl, r) : tbl \in {x \in tablesUpTo(n - 1) : Len(x) = n - 1},
                           r \in StoredEvents}

\* the query parameter date=YYYY-MM-DD,YYYY-MM-DD for the days d1 to d2
rangeParam(d1, d2) ==
    dateOf(toISOString(d1 * InstantsPerDay)) \o <<",">> \o
    dateOf(toISOString(d2 * InstantsPerDay))

firstPage(d1, d2, limit) ==
    [phase |-> "paging", d1 |-> d1, d2 |-> d2, date |-> rangeParam(d1, d2),
     limit |-> limit, offset |-> 0, items |-> <<>>]

InitEvents ==
    \E tbl \in tablesUpTo(MaxRows), d1 \in EventDays, d2 \in EventDays, limit \in 0..2 :
        InitWith(<<>>, <<>>, tbl, firstPage(d1, d2, limit))

NextEvents == ListEvents

SpecEvents == InitEvents /\ [][NextEvents]_vars

\* ------------------------------------------------------- GET /api/messages
\* the rows of table messages with their rowid (the place in rowid order)
withRowids(tbl) == [i \in 1..Len(tbl) |-> [rowid |-> i, row |-> tbl[i]]]

RECURSIVE orderMessagesDesc(_)
\* ORDER BY timestamp DESC; rows of one timestamp come out by ascending
\* rowid, as the scan of idx_messages_timestamp (timestamp DESC) delivers them
orderMessagesDesc(rows) ==
    IF rows = <<>> THEN <<>>
    ELSE LET first == CHOOSE i \in 1..Len(rows) : \A j \in 1..Len(rows) :
                          \/ textLess(rows[j].row.timestamp, rows[i].row.timestamp)
                          \/ /\ rows[j].row.timestamp = rows[i].row.timestamp
                             /\ rows[j].rowid >= rows[i].rowid
         IN  <<rows[first].row>> \o
             orderMessagesDesc(SubSeq(rows, 1, first - 1) \o
                               SubSeq(rows, first + 1, Len(rows)))

\* app.get('/api/messages') (groupId "") and app.get('/api/messages/:groupId'):
\* the response to a query; parseInt(req.query.limit) || 100 and
\* parseInt(req.query.offset) || 0
listMessages(tbl, groupId, limitParam, offsetParam) ==
    LET limit == IF limitParam = 0 THEN 100 ELSE limitParam
        offset == IF offsetParam = 0 THEN 0 ELSE offsetParam
        matching == SelectSeq(withRowids(tbl),
                              LAMBDA r : groupId = "" \/ r.row.groupId = groupId)
        total == Len(matching)
    IN  [messages |-> limitOffset(orderMessagesDesc(matching), limit, offset),
         total |-> total, limit |-> limit, offset |-> offset,
         hasMore |-> offset + limit < total]

\* a dashboard's GET /api/messages request is answered
ListMessages ==
    /\ pager.phase = "query"
    /\ pager' = [phase |-> "answered", groupId |-> pager.groupId, limit |-> pager.limit,
                 offset |-> pager.offset,
                 res |-> listMessages(messages, pager.groupId, pager.limit, pager.offset)]
    /\ UNCHANGED <<chatMembers, chatMsgs, now, envCount, cliVars, regVars, wsClient, timers,
                   tasks, counters, dbVars, wsVars, http>>

\* the row a pass stores for text message id of group g sent at instant ts
storedMessage(id, g, ts) ==
    processMessage([textMessage(id) EXCEPT !.timestamp = ts], g, TRUE).row

RECURSIVE messageTablesUpTo(_)
\* the messages tables of at most n rows, with ids 1..n in rowid order
messageTablesUpTo(n) ==
    IF n = 0 THEN {<<>>}
    ELSE messageTablesUpTo(n - 1) \cup
         {Append(tbl, storedMessage(n, g, ts)) :
              tbl \in {x \in messageTablesUpTo(n - 1) : Len(x) = n - 1},
              g \in GroupIds, ts \in 0..MaxClock}

\* Reading messages: the table holds up to MaxRows messages of two groups
\* and two instants; one query is answered, with or without a group, with
\* limit and offset from 0 to 2. Nothing writes to the store.
InitMessages ==
    \E tbl \in messageTablesUpTo(MaxRows), g \in {""} \cup GroupIds,
       limit \in 0..2, offset \in 0..2 :
        InitStore(<<>>, <<>>, tbl, <<>>,
                  [phase |-> "query", groupId |-> g, limit |-> limit, offset |-> offset])

NextMessages == ListMessages

SpecMessages == InitMessages /\ [][NextMessages]_vars

\* ---------------------------------------------------------- bot_extended.js
\* The in-memory API server: the same registry, scheduler and passes, with
\* the Maps messageStore and eventStore in the place of the SQLite tables.
\* The variable `messages` holds messageStore here: the arrays of the groups
\* one after the other, in the Map's insertion order.
MemoryStart == 14
MaxMemoryMsgs == 17

\* messageStore.set(groupId, processedMessages), bot_extended.js:892: the
\* array becomes the group's value, whatever the value was
messageStoreSet(store, g, rows) ==
    LET ix == {i \in 1..Len(store) : store[i].groupId = g}
        at == IF ix = {} THEN Len(store) + 1
              ELSE CHOOSE i \in ix : \A j \in ix : i <= j
    IN  SelectSeq(SubSeq(store, 1, at - 1), LAMBDA r : r.groupId # g) \o rows \o
        SelectSeq(SubSeq(store, at, Len(store)), LAMBDA r : r.groupId # g)

\* processMessage of bot_extended.js (923-954) for a message without media;
\* ok: the contact lookup resolved
botProcessMessage(msg, g, ok) ==
    [id |-> msg.id, groupId |-> g,
     sender |-> IF msg.author = "" THEN "Unknown"
                ELSE IF ok THEN pushname(msg.author) ELSE phoneOf(msg.author),
     senderId |-> msg.author, message |-> <<msg.body>>,
     timestamp |-> toISOString(msg.timestamp)]

\* app.get('/api/messages'), bot_extended.js:312-341: the arrays of all groups,
\* sorted by timestamp, newest first (Array.prototype.sort is stable), sliced
botListMessages(store, limitParam, offsetParam) ==
    LET limit == IF limitParam = 0 THEN 100 ELSE limitParam
    IN  limitOffset(orderMessagesDesc(withRowids(store)), limit, offsetParam)

\* `await client.getChats()` of the pass returns, bot_extended.js:816-868
BotPassGetChats(t) == PassGetChats(t, "ok")

\* `await group.fetchMessages(...)` returns, bot_extended.js:870-880
BotPassFetch(t) == PassFetch(t, TRUE)

\* `await processMessage(msg, ...)` of the loop over all fetched messages
\* returns (bot_extended.js:883-889); after the last one the array is stored
\* (892) and isFirstRun decides what follows
BotPassProcess(t, ok) ==
    LET tk == tasks[t]
        rows == Append(tk.processed, botProcessMessage(Head(tk.todo), tk.g, ok))
        last == Len(tk.todo) = 1
        first == heap[tk.obj].isFirstRun
    IN  /\ tk.kind = "tick"
        /\ tk.pc = "proc"
        /\ messages' = IF last THEN messageStoreSet(messages, tk.g, rows) ELSE messages
        /\ IF ~last
           THEN /\ tasks' = [tasks EXCEPT ![t] =
                       [tk EXCEPT !.todo = Tail(@), !.processed = rows]]
                /\ UNCHANGED <<heap, inbox, http>>
           ELSE IF ~first /\ tk.new # <<>>
           THEN /\ tasks' = [tasks EXCEPT ![t] =
                       [tk EXCEPT !.pc = "bcast", !.todo = tk.new, !.processed = rows]]
                /\ UNCHANGED <<heap, inbox, http>>
           ELSE /\ heap' = endOfPass(heap, tk.obj, TRUE)
                /\ Return(t, tk, inbox)
        /\ UNCHANGED <<envVars, cliVars, GROUP_NAMES, messageLimit, wsClient, configFile, monitoredGroups,
                       groupInfoStore, timers, counters, events, dbPending, wsClients,
                       readyState>>

\* `await processMessage(msg, ...)` of the loop over the new messages returns
\* (bot_extended.js:898-903): the message is broadcast
BotPassBroadcast(t, ok) ==
    LET tk == tasks[t]
        inb == broadcast(messageEnvelope(botProcessMessage(Head(tk.todo), tk.g, ok)))
    IN  /\ tk.kind = "tick"
        /\ tk.pc = "bcast"
        /\ IF Len(tk.todo) > 1
           THEN /\ tasks' = [tasks EXCEPT ![t] =
                       [tk EXCEPT !.todo = Tail(@),
                                  !.sent = @ \cup {Head(tk.todo).id}]]
                /\ inbox' = inb
                /\ UNCHANGED <<heap, http>>
           ELSE /\ heap' = endOfPass(heap, tk.obj, TRUE)
                /\ Return(t, tk, inb)
        /\ UNCHANGED <<envVars, cliVars, GROUP_NAMES, messageLimit, wsClient, configFile, monitoredGroups,
                       groupInfoStore, timers, counters, dbVars, wsClients, readyState>>

\* one more text message is posted while the chat holds fewer than cap
PostText(g, cap) == envCount.msgs < cap /\ PostBurst(g, 1)

\* Memory: the in-memory server has monitored "Giza" for a while. The chat
\* holds MemoryStart text messages, one less than a fetch returns at most,
\* all of them fetched and stored by the baseline pass; no pass is in flight
\* and the timer is armed. Messages arrive one at a time up to MaxMemoryMsgs
\* while the timer fires up to MaxTicks times; contact lookups resolve.
InitMemory ==
    /\ chatMembers = [g \in GroupIds |-> {"a@c"}]
    /\ chatMsgs = [g \in GroupIds |->
                      IF g = "g2" THEN [i \in 1..MemoryStart |-> textMessage(i)] ELSE <<>>]
    /\ now = 0
    /\ envCount = [msgs |-> MemoryStart, changes |-> 0, readies |-> 1, pushes |-> 0,
                   edits |-> 0]
    /\ pager = NoPager
    /\ clientState = "ready"
    /\ isClientReady = TRUE
    /\ unhandled = 0
    /\ GROUP_NAMES = <<giza>>
    /\ messageLimit = MESSAGE_LIMIT
    /\ wsClient = newWSClient
    /\ configFile = <<giza>>
    /\ monitoredGroups = <<[id |-> "g2", obj |-> 1, serial |-> 1]>>
    /\ heap = <<[previousMessageIds |-> [i \in 1..MemoryStart |-> i],
                 previousMembers |-> {"a@c"}, isFirstRun |-> FALSE,
                 observed |-> [i \in 1..MemoryStart |-> i], fetched |-> <<>>]>>
    /\ groupInfoStore = [g \in {"g2"} |-> [name |-> Giza, memberCount |-> 1]]
    /\ timers = 1
    /\ tasks = [t \in TaskIds |-> Idle]
    /\ counters = [ticks |-> 0, adds |-> 0, serial |-> 1]
    /\ messages = [i \in 1..MemoryStart |-> botProcessMessage(textMessage(i), "g2", TRUE)]
    /\ events = <<>>
    /\ dbPending = EmptyBag
    /\ wsClients = <<"c1">>
    /\ readyState = [c \in Conns |-> IF c = "c1" THEN "OPEN" ELSE "NONE"]
    /\ inbox = [c \in Conns |->
                   IF c = "c1" THEN SetToBag({connectedEnvelope}) ELSE EmptyBag]
    /\ http = {}

NextMemory ==
    \/ PostText("g2", MaxMemoryMsgs)
    \/ TickUpTo(MaxTicks)
    \/ \E t \in TaskIds : BotPassGetChats(t)
    \/ \E t \in TaskIds : BotPassFetch(t)
    \/ \E t \in TaskIds : BotPassProcess(t, TRUE)
    \/ \E t \in TaskIds : BotPassBroadcast(t, TRUE)

SpecMemory == InitMemory /\ [][NextMemory]_vars

\* Replace: the server starts with an events table that holds the JOIN of
\* member b in "Giza" recorded on day 00 by an earlier run; the collaborator
\* reports that b joined again while a dashboard reads the events of day 00.
InitReplace ==
    InitWith(<<giza>>, <<"c1">>, <<storedEvent("g2", 0)>>, firstPage(0, 0, 0))

NextReplace ==
    \/ ClockTick
    \/ ClientReady
    \/ \E t \in TaskIds : ReadyStep(t, TRUE)
    \/ \E t \in TaskIds : PassGetChats(t, "ok")
    \/ \E t \in TaskIds : PassFetch(t, TRUE)
    \/ GroupNotification("JOIN", "g2", "b@c")
    \/ \E t \in TaskIds, ok \in BOOLEAN : PushEvent(t, ok)
    \/ Sqlite
    \/ ListEvents

SpecReplace == InitReplace /\ [][NextReplace]_vars

\* Dates: the events table holds the JOINs of member b in "Giza" that earlier
\* runs recorded on day 09 and on day 00; today is day 00. The collaborator
\* reports that b joined or left the group, the timer fires on the empty chat.
InitDates ==
    InitWith(<<giza>>, <<>>, <<storedEvent("g2", 9), storedEvent("g2", 0)>>, NoPager)

NextDates ==
    \/ ClientReady
    \/ \E t \in TaskIds : ReadyStep(t, TRUE)
    \/ TickUpTo(MaxHistoryTicks)
    \/ \E t \in TaskIds : PassGetChats(t, "ok")
    \/ \E t \in TaskIds : PassFetch(t, TRUE)
    \/ \E etype \in {"JOIN", "LEAVE"} : GroupNotification(etype, "g2", "b@c")
    \/ \E t \in TaskIds, ok \in BOOLEAN : PushEvent(t, ok)
    \/ Sqlite

SpecDates == InitDates /\ [][NextDates]_vars

\* member m joins group g: the one membership change of the scenario
JoinOnce(g, m) == envCount.changes = 0 /\ m \notin chatMembers[g] /\ MemberChange(g, m)

\* the collaborator pushes group_join for the join that happened
PushOfJoin(g, m) ==
    /\ envCount.pushes < envCount.changes
    /\ m \in chatMembers[g]
    /\ GroupNotification("JOIN", g, m)

\* Push: "Giza" is configured, its chat stays empty and a dashboard is
\* connected. Member b joins once; the collaborator pushes group_join for it
\* and the passes of the timer see the new member list. Contact lookups
\* resolve.
InitPush == InitBase(<<giza>>, <<"c1">>)

NextPush ==
    \/ ClientReady
    \/ \E t \in TaskIds : ReadyStep(t, TRUE)
    \/ JoinOnce("g2", "b@c")
    \/ PushOfJoin("g2", "b@c")
    \/ \E t \in TaskIds : PushEvent(t, TRUE)
    \/ TickUpTo(MaxTicks)
    \/ \E t \in TaskIds : PassGetChats(t, "ok")
    \/ \E t \in TaskIds : PassFetch(t, TRUE)
    \/ MemberEvents({TRUE})
    \/ Sqlite

SpecPush == InitPush /\ [][NextPush]_vars

\* Lifecycle: "Giza" is configured and its chat stays empty; the
\* collaborator becomes ready, is disconnected and becomes ready again,
\* groups are removed over HTTP and the timer fires.
InitLifecycle == InitBase(<<giza>>, <<"c1">>)

NextLifecycle ==
    \/ ClientReady
    \/ \E t \in TaskIds : ReadyStep(t, TRUE)
    \/ ClientDisconnected
    \/ TickUpTo(MaxHistoryTicks)
    \/ \E t \in TaskIds, res \in {"ok", "throw"} : PassGetChats(t, res)
    \/ \E t \in TaskIds : PassFetch(t, TRUE)
    \/ \E g \in GroupIds : RemoveGroup(g)

SpecLifecycle == InitLifecycle /\ [][NextLifecycle]_vars

\* Removal: both groups are configured; voice messages arrive in the chat of
\* "Giza" and are stored with their CERTIFICATE events; groups are removed
\* over HTTP, with ids that are monitored and ids that are not.
InitRemove == InitBase(<<cairo, giza>>, <<"c1">>)

NextRemove ==
    \/ PostMessage("g2", VoiceKind)
    \/ ClientReady
    \/ \E t \in TaskIds : ReadyStep(t, TRUE)
    \/ TickUpTo(MaxHistoryTicks)
    \/ CheckMessages({"ok"}, {TRUE}, {TRUE})
    \/ \E g \in GroupIds : RemoveGroup(g)
    \/ Sqlite

SpecRemove == InitRemove /\ [][NextRemove]_vars

\* Edit: "Giza" is configured; text messages arrive in its chat and their
\* author edits one of them.
InitEdit == InitBase(<<giza>>, <<"c1">>)

NextEdit ==
    \/ PostMessage("g2", ChatKind)
    \/ \E i \in 1..MaxMsgs : EditMessage("g2", i)
    \/ ClientReady
    \/ \E t \in TaskIds : ReadyStep(t, TRUE)
    \/ TickUpTo(MaxTicks)
    \/ CheckMessages({"ok"}, {TRUE}, {TRUE})
    \/ Sqlite

SpecEdit == InitEdit /\ [][NextEdit]_vars

\* Certificates: texts and voice recordings are posted in "Giza Team" on two
\* days while the baseline pass and one timer pass run.
InitCertificate == InitBase(<<giza>>, <<>>)

NextCertificate ==
    \/ ClockUpTo(MaxCertificateClock)
    \/ \E k \in {ChatKind, VoiceKind} : PostMessage("g2", k)
    \/ ClientReady
    \/ \E t \in TaskIds : ReadyStep(t, TRUE)
    \/ TickUpTo(MaxHistoryTicks)
    \/ CheckMessages({"ok"}, {TRUE}, {TRUE})
    \/ Sqlite

SpecCertificate == InitCertificate /\ [][NextCertificate]_vars

\* Adding a group: no group is configured; "Cairo Team" is added over HTTP,
\* once, while a member is added to it at the collaborator, which also puts
\* the notification of that in its chat.
InitAddPass == InitBase(<<>>, <<"c1">>)

NextAddPass ==
    \/ PostMessage("g1", AddedKind)
    \/ MemberChange("g1", "b@c")
    \/ ClientReady
    \/ \E t \in TaskIds : ReadyStep(t, TRUE)
    \/ AddGroupUpTo(1, cairo)
    \/ \E t \in TaskIds : AddGetChats(t, TRUE)
    \/ CheckMessages({"ok"}, {TRUE}, {TRUE})
    \/ MemberEvents({TRUE})
    \/ Sqlite

SpecAddPass == InitAddPass /\ [][NextAddPass]_vars

\* Reconnection of the API server: "Giza" is configured; the collaborator
\* becomes ready, is disconnected, and may become ready again. Every step
\* the server itself can take is taken eventually: its handlers go on when
\* their awaits return and its timer fires. Nothing obliges the
\* collaborator to send an event.
InitReconnect == InitBase(<<giza>>, <<"c1">>)

NextReconnect ==
    \/ ClientReady
    \/ \E t \in TaskIds : ReadyStep(t, TRUE)
    \/ ClientDisconnected
    \/ TickUpTo(MaxHistoryTicks)
    \/ \E t \in TaskIds : PassGetChats(t, "ok")
    \/ \E t \in TaskIds : PassFetch(t, TRUE)

SpecReconnect ==
    /\ InitReconnect
    /\ [][NextReconnect]_vars
    /\ WF_vars(\E t \in TaskIds : ReadyStep(t, TRUE))
    /\ WF_vars(TickUpTo(MaxHistoryTicks))
    /\ WF_vars(\E t \in TaskIds : PassGetChats(t, "ok"))
    /\ WF_vars(\E t \in TaskIds : PassFetch(t, TRUE))

\* Poll: the server starts with nothing or with "Giza" configured; "Cairo
\* Team" is added over HTTP once, messages arrive in it, a dashboard is
\* connected. Collaborator calls return and resolve; every handler in flight
\* goes on, SQLite executes what it was handed, and an armed timer fires (up
\* to MaxTicks times).
InitPoll == \E names \in {<<>>, <<giza>>} : InitBase(names, <<"c1">>)

ServerPoll ==
    \/ \E t \in TaskIds : ReadyStep(t, TRUE)
    \/ \E t \in TaskIds : AddGetChats(t, TRUE)
    \/ CheckMessages({"ok"}, {TRUE}, {TRUE})
    \/ Sqlite

NextPoll ==
    \/ PostMessage("g1", ChatKind)
    \/ ClientReady
    \/ AddGroupUpTo(1, cairo)
    \/ TickUpTo(MaxTicks)
    \/ ServerPoll

SpecPoll ==
    /\ InitPoll
    /\ [][NextPoll]_vars
    /\ WF_vars(ServerPoll)
    /\ WF_vars(TickUpTo(MaxTicks))

\* a checkMessages call for group g goes on: its getChats or its
\* fetchMessages returns
PassOf(g) ==
    \E t \in TaskIds :
        /\ tasks[t].kind = "tick"
        /\ tasks[t].g = g
        /\ (PassGetChats(t, "ok") \/ PassFetch(t, TRUE))

\* Stuck: both groups are configured, in either order, and their chats stay
\* empty. The timer fires up to MaxTicks times. The collaborator answers the
\* calls of the passes for "Giza"; nothing obliges it to answer a call of a
\* pass for "Cairo Team".
InitStuck == \E names \in {<<cairo, giza>>, <<giza, cairo>>} : InitBase(names, <<>>)

NextStuck ==
    \/ ClientReady
    \/ \E t \in TaskIds : ReadyStep(t, TRUE)
    \/ TickUpTo(MaxTicks)
    \/ \E g \in GroupIds : PassOf(g)

SpecStuck ==
    /\ InitStuck
    /\ [][NextStuck]_vars
    /\ WF_vars(\E t \in TaskIds : ReadyStep(t, TRUE))
    /\ WF_vars(TickUpTo(MaxTicks))
    /\ WF_vars(PassOf("g2"))

\* The console monitor, started with a configuration that names no group of
\* the collaborator, one group, or both.
InitMonitor == \E names \in {<<luxor>>, <<giza>>, <<cairo, giza>>} : InitBase(names, <<>>)

NextMonitor ==
    \/ \E g \in GroupIds : PostMessage(g, ChatKind)
    \/ MonitorReady
    \/ \E t \in TaskIds, ok \in BOOLEAN : MonitorInitializeGroups(t, ok)
    \/ MonitorAuthFailure
    \/ MonitorDisconnected
    \/ MonitorReconnect
    \/ TickUpTo(MaxTicks)
    \/ \E t \in TaskIds, res \in {"ok", "throw"} : MonitorPassGetChats(t, res)
    \/ \E t \in TaskIds, ok \in BOOLEAN : MonitorPassFetch(t, ok)

SpecMonitor == InitMonitor /\ [][NextMonitor]_vars

\* Subscribe: both groups are configured; dashboards connect and go away
\* while the collaborator becomes ready, registers the groups one after the
\* other, is disconnected and becomes ready again.
InitSubscribe == InitBase(<<cairo, giza>>, <<>>)

NextSubscribe ==
    \/ \E c \in Conns : WsConnect(c)
    \/ \E c \in Conns : WsClosing(c)
    \/ \E c \in Conns : WsClose(c)
    \/ ClientReady
    \/ \E t \in TaskIds : ReadyStep(t, TRUE)
    \/ ClientDisconnected

SpecSubscribe == InitSubscribe /\ [][NextSubscribe]_vars

\* ------------------------------------------------------------- properties
\* the checkMessages calls in flight for group g
passesOf(g) ==
    {t \in TaskIds : tasks[t].kind \in {"tick", "add"} /\ tasks[t].g = g}

\* C1: for every monitored group, at most one checkMessages call is executing
\* at any time: a tick that fires while the group's pass is in flight starts
\* no second pass for it
C1_AtMostOnePass == \A g \in GroupIds : Cardinality(passesOf(g)) <= 1

\* C2: the messages table holds at most one row per message id, however often
\* and from however many passes the id is upserted
C2_OneRowPerId ==
    \A i, j \in 1..Len(messages) : messages[i].id = messages[j].id => i = j

\* C2 at work: a row of a chat is stored after the row of a later message of
\* that chat. Every statement that carries the later message carries the
\* earlier one before it, so the earlier one was stored and then replaced.
C2_Replaced ==
    \E i, j \in 1..Len(messages) :
        /\ i < j
        /\ messages[i].groupId = messages[j].groupId
        /\ messages[i].id > messages[j].id

\* the key the spec gives an event row
eventKey(r) == <<r.groupId, r.memberId, r.type, r.date>>

\* C3: once SQLite has run every statement handed to it, the events table
\* holds one row per key (groupId, memberId, type, date), in whatever order
\* the delete and insert statements ran
C3_OneRowPerKey ==
    dbPending = EmptyBag =>
        \A i, j \in 1..Len(events) :
            eventKey(events[i]) = eventKey(events[j]) => i = j

\* the checkMessages call of task t is a baseline pass: isFirstRun was set when
\* its membership diff ran
baselinePass(t) ==
    /\ tasks[t].kind \in {"tick", "add"}
    /\ tasks[t].baseline

diffEvents(tk, type) ==
    {e.memberId : e \in {x \in tk.emitted : x.type = type /\ x.via = "diff"}}

\* the pass of task t has finished its membership diff
diffDone(t) ==
    /\ tasks[t].kind \in {"tick", "add"}
    /\ tasks[t].pc \in {"fetch", "proc", "bcast"}

\* C5: a steady-state pass that started its diff with snapshot P and fetched
\* the member set C has produced a JOIN event for exactly the ids of C \ P and
\* a LEAVE event for exactly the ids of P \ C
C5_ExactDiff ==
    \A t \in TaskIds :
        (diffDone(t) /\ ~tasks[t].baseline) =>
            /\ diffEvents(tasks[t], "JOIN") = SeqToSet(tasks[t].cur) \ tasks[t].prev
            /\ diffEvents(tasks[t], "LEAVE") = tasks[t].prev \ SeqToSet(tasks[t].cur)

\* C8: a POST /api/groups request whose name resolves to a group that is in
\* the registry is answered AlreadyMonitored (409) when it arrives: it never
\* goes on to look the group up and register it
C8_AlreadyMonitored ==
    [][\A t \in TaskIds :
          (tasks[t] = Idle /\ tasks'[t] # Idle /\ tasks'[t].kind = "add")
              => findGroup(trim(tasks'[t].req)) \notin DOMAIN groupInfoStore]_vars

\* no checkMessages call on groupInfo object o is between adding the fetched
\* ids to the window and its clean-up
settled(o) ==
    \A t \in TaskIds :
        ~ (/\ tasks[t].kind \in {"tick", "add"}
           /\ tasks[t].obj = o
           /\ tasks[t].pc \in {"proc", "bcast"})

\* the last n elements of a sequence
lastOf(s, n) == IF Len(s) > n THEN SubSeq(s, Len(s) - n + 1, Len(s)) ELSE s

clientEnvelope(state) == [type |-> state]

\* C9: when the ready or the disconnected handler broadcasts, every
\* subscriber whose socket is open receives the envelope, whatever the state
\* of the other sockets in wsClients, and no error escapes the handler
C9_BestEffort ==
    [][clientState' # clientState =>
          /\ \A c \in SeqToSet(wsClients) :
                readyState[c] = "OPEN" =>
                    inbox'[c] = inbox[c] (+) SetToBag({clientEnvelope(clientState')})
          /\ unhandled' = unhandled]_vars

\* C9 at work: subscriber c has received `ready`; subscriber d, which joined
\* wsClients before c and is still in it, has not: its socket was no longer
\* open when the broadcast ran
C9_ClosedSkipped ==
    \E i, j \in 1..Len(wsClients) :
        /\ i < j
        /\ readyState[wsClients[i]] = "CLOSING"
        /\ ~ BagIn(clientEnvelope("ready"), inbox[wsClients[i]])
        /\ BagIn(clientEnvelope("ready"), inbox[wsClients[j]])

\* the day a stored date denotes
dayNumber(date) == (charCode(date[1]) - 1) * 10 + (charCode(date[2]) - 1)

\* the ids of the stored events whose day lies in d1..d2
inRange(d1, d2) ==
    {i \in 1..Len(events) :
        d1 <= dayNumber(events[i].date) /\ dayNumber(events[i].date) <= d2}

\* C10: the pages GET /api/events returns for a range of days and no other
\* filter hold, together, each stored event of a day d1 <= day <= d2 once,
\* of whatever group, and nothing else
C10_InclusiveRange ==
    pager.phase = "done" =>
        /\ {pager.items[k].id : k \in 1..Len(pager.items)} = inRange(pager.d1, pager.d2)
        /\ Len(pager.items) = Cardinality(inRange(pager.d1, pager.d2))
        /\ \A k \in 1..Len(pager.items) :
              withIds(events)[pager.items[k].id] = pager.items[k]

\* C10 at work: a range of several days was read in more than one page; the
\* pages hold an event of the first day, one of the last day and events of
\* both groups, and the store holds an event outside the range
C10_PagedRange ==
    /\ pager.phase = "done"
    /\ pager.d1 < pager.d2
    /\ pager.offset > pager.limit
    /\ \E k \in 1..Len(pager.items) : dayNumber(pager.items[k].date) = pager.d1
    /\ \E k \in 1..Len(pager.items) : dayNumber(pager.items[k].date) = pager.d2
    /\ {pager.items[k].groupId : k \in 1..Len(pager.items)} = GroupIds
    /\ inRange(pager.d1, pager.d2) # 1..Len(events)

\* C7: a checkAllGroups run ends only when it has visited every entry of the
\* registry, whether or not a collaborator call failed in one of its passes,
\* and no step ever cancels the timer
C7_FailureIsolated ==
    [][/\ timers' >= timers
       /\ \A t \in TaskIds :
             (tasks[t].kind = "tick" /\ tasks'[t] = Idle)
                 => nextEntry(monitoredGroups', tasks[t].last) = 0]_vars

\* C7 at work: in one run the pass of g1 has failed, and the pass of g2 that
\* followed it has broadcast the first of its two new messages
C7_OtherGroupBroadcast ==
    \E t \in TaskIds :
        /\ tasks[t].kind = "tick"
        /\ "g1" \in tasks[t].failed
        /\ tasks[t].g = "g2"
        /\ tasks[t].pc = "bcast"
        /\ Len(tasks[t].todo) < Len(tasks[t].new)
        /\ \E e \in BagToSet(inbox["c1"]) : e.type = "message" /\ e.groupId = "g2"
\* no other checkMessages call is in flight for the group of task t
alone(t) ==
    \A u \in TaskIds \ {t} :
        ~ (tasks[u].kind \in {"tick", "add"} /\ tasks[u].pc # "none" /\ tasks[u].g = tasks[t].g)

\* C11: when getChats or fetchMessages rejects in a pass of group G (the only
\* pass of G in flight), G's membership snapshot, memberCount, window and
\* baseline flag are what they were when the pass started
C11_AbortRestores ==
    [][\A t \in TaskIds :
          /\ (tasks[t] # Idle /\ alone(t) /\ PassGetChats(t, "throw")) =>
                 /\ heap'[tasks[t].obj] = heap[tasks[t].obj]
                 /\ groupInfoStore' = groupInfoStore
          /\ (tasks[t] # Idle /\ alone(t) /\ PassFetch(t, FALSE)) =>
                 /\ heap'[tasks[t].obj].previousMembers = tasks[t].prev
                 /\ heap'[tasks[t].obj].previousMessageIds = tasks[t].prevIds
                 /\ heap'[tasks[t].obj].isFirstRun = tasks[t].baseline
                 /\ tasks[t].g \in DOMAIN groupInfoStore =>
                        groupInfoStore'[tasks[t].g].memberCount = tasks[t].prevCount]_vars
\* C12: the key (g2, b, JOIN, day 00) has a stored row from the start; a
\* read of the events of day 00 returns one row of that key, whether or not a
\* replace of the key is under way when SQLite runs the read
C12_ReplaceAtomic ==
    pager.phase = "done" =>
        Cardinality({k \in 1..Len(pager.items) :
                        eventKey(pager.items[k]) = eventKey(storedEvent("g2", 0))}) = 1
\* in this step the handler of slot t calls checkMessages for group g
startsPass(t, g) ==
    /\ tasks'[t] # tasks[t]
    /\ tasks'[t].kind \in {"tick", "add"}
    /\ tasks'[t].pc = "getChats"
    /\ tasks'[t].g = g

\* DELETE /api/groups/g has been answered 200
removed(g) == [status |-> "200", name |-> <<>>, groupId |-> g] \in http

\* C13: once RemoveGroup(g) has succeeded, no pass is started for g again,
\* whatever ticks, disconnected and ready events follow (no group is added
\* over HTTP in this scenario)
C13_RemovedIsTerminal ==
    [][\A t \in TaskIds, g \in GroupIds : removed(g) => ~ startsPass(t, g)]_vars

\* C15: between the disconnected event and the next ready event no pass is
\* started for any group
C15_SuspendedWhileDisconnected ==
    [][\A t \in TaskIds, g \in GroupIds :
          (clientState = "disconnected" /\ clientState' = "disconnected")
              => ~ startsPass(t, g)]_vars
\* the ids of the registry
registered(mg) == {mg[i].id : i \in 1..Len(mg)}

\* C14: the step in which DELETE /api/groups/g is answered 200 takes g, and
\* only g, out of the registry and leaves both tables and the statements
\* handed to SQLite as they are; the step in which it is answered 404 is the
\* step of an id that is not registered and changes neither registry nor store
C14_RemoveFrame ==
    [][\A g \in GroupIds :
          /\ ([status |-> "200", name |-> <<>>, groupId |-> g] \in http' \ http) =>
                /\ g \in registered(monitoredGroups)
                /\ registered(monitoredGroups') = registered(monitoredGroups) \ {g}
                /\ \A i \in 1..Len(monitoredGroups) :
                      monitoredGroups[i].id # g =>
                          monitoredGroups[i] \in SeqToSet(monitoredGroups')
                /\ DOMAIN groupInfoStore' = DOMAIN groupInfoStore \ {g}
                /\ \A x \in DOMAIN groupInfoStore' : groupInfoStore'[x] = groupInfoStore[x]
                /\ messages' = messages /\ events' = events /\ dbPending' = dbPending
          /\ ([status |-> "404", name |-> <<>>, groupId |-> g] \in http' \ http) =>
                /\ g \notin registered(monitoredGroups)
                /\ monitoredGroups' = monitoredGroups
                /\ groupInfoStore' = groupInfoStore
                /\ messages' = messages /\ events' = events /\ dbPending' = dbPending]_vars

\* C14 at work: "Giza" was removed and "Cairo Team" is still registered; the
\* store holds a message and a CERTIFICATE event of "Giza"; a removal of an
\* id that was not registered was answered 404
C14_RemovedKeepsRows ==
    /\ removed("g2")
    /\ registered(monitoredGroups) = {"g1"}
    /\ DOMAIN groupInfoStore = {"g1"}
    /\ \E i \in 1..Len(messages) : messages[i].groupId = "g2"
    /\ \E i \in 1..Len(events) : events[i].groupId = "g2"
    /\ [status |-> "404", name |-> <<>>, groupId |-> "g2"] \in http
\* the checkMessages call of slot t returns in this step
passEnds(t) ==
    /\ tasks[t] # Idle
    /\ tasks[t].kind \in {"tick", "add"}
    /\ tasks[t].pc \in {"fetch", "proc", "bcast"}
    /\ tasks'[t] # tasks[t]
    /\ (tasks'[t] = Idle \/ tasks'[t].pc = "getChats")

\* the ids of the messages the call of slot t has broadcast when it makes
\* its next step
sentBy(t) ==
    tasks[t].sent \cup (IF tasks[t].pc = "bcast" THEN {Head(tasks[t].todo).id} ELSE {})

\* C16: a baseline pass hands every fetched message to the INSERT OR REPLACE
\* statement and broadcasts no `message` envelope; any other pass broadcasts a
\* `message` envelope for the fetched messages whose id was not in the window
\* when it classified them, and for no other message
C16_BroadcastNewOnly ==
    [][\A t \in TaskIds :
          passEnds(t) =>
              IF tasks[t].baseline
              THEN /\ sentBy(t) = {}
                   /\ tasks[t].msgs # <<>> =>
                          \E st \in BagToSet(dbPending') :
                              /\ st.stmt = "UPSERT_MESSAGES"
                              /\ msgIds(st.rows) = msgIds(tasks[t].msgs)
              ELSE sentBy(t) = tasks[t].absent]_vars
\* C17: once no handler is in flight and SQLite has run every statement, the
\* messages table holds, for every message the latest fetch of a group
\* returned, a row of its id with the content that fetch returned
C17_StoredAsFetched ==
    ((\A t \in TaskIds : tasks[t] = Idle) /\ dbPending = EmptyBag) =>
        \A i \in 1..Len(monitoredGroups) :
            LET e == monitoredGroups[i]
                ms == heap[e.obj].fetched
            IN  \A k \in 1..Len(ms) :
                    \E r \in 1..Len(messages) :
                        /\ messages[r].id = ms[k].id
                        /\ messages[r].message = processMessage(ms[k], e.id, TRUE).row.message
\* C18: the step that adds a connection to wsClients delivers to it, as its
\* first envelope, `connected` with the group list of that moment; a
\* connection that is not in wsClients receives nothing
C18_ConnectedFirst ==
    [][\A c \in Conns :
          /\ (c \notin SeqToSet(wsClients) /\ c \in SeqToSet(wsClients')) =>
                /\ inbox[c] = EmptyBag
                /\ inbox'[c] = SetToBag({[type |-> "connected", groups |-> groupInfoStore]})
          /\ (c \notin SeqToSet(wsClients) /\ c \notin SeqToSet(wsClients')) =>
                inbox'[c] = inbox[c]]_vars

\* C18 at work: a subscriber connected when "Cairo Team" was the only
\* registered group and has since received a `disconnected` broadcast
C18_SnapshotThenBroadcast ==
    \E c \in Conns :
        /\ \E e \in BagToSet(inbox[c]) : e.type = "connected" /\ DOMAIN e.groups = {"g1"}
        /\ BagIn([type |-> "disconnected"], inbox[c])

\* C19: every stored JOIN or LEAVE event names its member by the resolved
\* contact name or, when the lookup failed, by the fragment of the member id
\* before the '@'
C19_NameOrIdFragment ==
    \A k \in 1..Len(events) :
        events[k].type \in {"JOIN", "LEAVE"} =>
            events[k].memberName \in {pushname(events[k].memberId),
                                      phoneOf(events[k].memberId)}

\* the message of chat g that a stored row was made from
chatMessage(g, id) == CHOOSE m \in SeqToSet(chatMsgs[g]) : m.id = id

\* C20: once SQLite has run every statement handed to it, each stored
\* message that is a voice recording (ptt or audio) has a CERTIFICATE row
\* under its group, its sender's phone and its own date; and every
\* CERTIFICATE row comes from a voice recording of that group, sender and
\* instant
C20_CertificatePerVoice ==
    /\ dbPending = EmptyBag =>
          \A k \in 1..Len(messages) :
              LET m == chatMessage(messages[k].groupId, messages[k].id)
              IN  m.type \in {"ptt", "audio"} =>
                      \E j \in 1..Len(events) :
                          /\ events[j].type = "CERTIFICATE"
                          /\ events[j].groupId = messages[k].groupId
                          /\ events[j].memberId = phoneOf(m.author)
                          /\ events[j].date = dateOf(toISOString(m.timestamp))
    /\ \A j \in 1..Len(events) :
          events[j].type = "CERTIFICATE" =>
              \E m \in SeqToSet(chatMsgs[events[j].groupId]) :
                  /\ m.type \in {"ptt", "audio"}
                  /\ phoneOf(m.author) = events[j].memberId
                  /\ toISOString(m.timestamp) = events[j].timestamp

\* C20 at work: a voice recording and a text of different days are stored,
\* every write is done, and the only CERTIFICATE row has the recording's date
C20_VoiceAndTextStored ==
    /\ dbPending = EmptyBag
    /\ \E i, k \in 1..Len(messages) :
          LET v == chatMessage("g2", messages[i].id)
              c == chatMessage("g2", messages[k].id)
          IN  /\ v.type = "ptt"
              /\ c.type = "chat"
              /\ dateOf(toISOString(v.timestamp)) # dateOf(toISOString(c.timestamp))
              /\ Len(events) = 1
              /\ events[1].type = "CERTIFICATE"
              /\ events[1].date = dateOf(toISOString(v.timestamp))

\* in this step the POST /api/groups request of slot t registers its group
registers(t) ==
    /\ tasks[t] # Idle
    /\ tasks[t].kind = "add"
    /\ tasks[t].pc = "addChats"
    /\ tasks'[t] # Idle
    /\ tasks'[t] # tasks[t]

\* in this step the checkMessages call of the POST /api/groups request of
\* slot t returns and the request ends
addReturns(t) ==
    /\ tasks[t] # Idle
    /\ tasks[t].kind = "add"
    /\ tasks[t].pc \notin {"none", "addChats"}
    /\ tasks'[t] = Idle

addFrame ==
    /\ monitoredGroups' = monitoredGroups
    /\ heap' = heap
    /\ groupInfoStore' = groupInfoStore
    /\ configFile' = configFile
    /\ messages' = messages /\ events' = events /\ dbPending' = dbPending
    /\ inbox' = inbox

\* some group chat of the collaborator has a display name that contains `name`
nameMatches(name) ==
    \E i \in 1..Len(Chats) :
        Chats[i].isGroup /\ includes(toLowerCase(Chats[i].name), toLowerCase(trim(name)))

\* C22: a POST /api/groups request that is refused at once (400, 503, 409)
\* or after the group listing (404, and 500 when the listing fails) changes
\* nothing; a request whose listing succeeded is answered 404 exactly when no
\* group's name contains the requested name
C22_AddErrorsChangeNothing ==
    [][/\ (counters'.adds # counters.adds /\ tasks' = tasks) =>
             /\ addFrame
             /\ \E r \in http' : r.status \in {"400", "503", "409"} /\ r.name # <<>>
       /\ \A t \in TaskIds :
             (tasks[t] # Idle /\ tasks[t].kind = "add" /\ tasks[t].pc = "addChats"
                  /\ tasks'[t] # tasks[t]) =>
                 /\ tasks'[t] = Idle =>
                        /\ addFrame
                        /\ \/ [status |-> "404", name |-> tasks[t].req, groupId |-> ""] \in http'
                           \/ [status |-> "500", name |-> tasks[t].req, groupId |-> ""] \in http'
                 /\ ~ nameMatches(tasks[t].req) => tasks'[t] = Idle
                 /\ ([status |-> "404", name |-> tasks[t].req, groupId |-> ""] \in http' \ http)
                        => ~ nameMatches(tasks[t].req)]_vars

\* C22 at work: "Cairo Team" was added and has a stored message, and a
\* request for "luxor" was answered 404
C22_NotFoundAfterAdd ==
    /\ [status |-> "404", name |-> luxor, groupId |-> ""] \in http
    /\ "g1" \in DOMAIN groupInfoStore
    /\ \E k \in 1..Len(messages) : messages[k].groupId = "g1"

\* C23: the process is never terminated by an error condition
C23_ProcessSurvives == clientState # "exited"

\* C24: after the API server's client was disconnected, the client is
\* ready again at some later time without anything but the server acting
C24_ReconnectsByItself == (clientState = "disconnected") ~> (clientState = "ready")

\* the stored messages a query for group g (or for all groups, "") matches
matchingMessages(g) ==
    {k \in 1..Len(messages) : g = "" \/ messages[k].groupId = g}

\* C25: the answer to ListMessages(groupId?, limit, offset) gives as total
\* the number of matching messages and hasMore exactly when
\* offset + limit < total; its items are distinct matching messages, as many
\* as the positions offset+1 .. offset+limit hold, in descending order of
\* timestamp, and the item at each position has no more later messages than
\* its position allows and enough at least as late
C25_PageOfSorted ==
    pager.phase = "answered" =>
        LET M == matchingMessages(pager.groupId)
            total == Cardinality(M)
            items == pager.res.messages
            want == IF pager.offset >= total THEN 0
                    ELSE IF pager.offset + pager.limit > total THEN total - pager.offset
                    ELSE pager.limit
        IN  /\ pager.res.total = total
            /\ pager.res.hasMore = (pager.offset + pager.limit < total)
            /\ Len(items) = want
            /\ \A k \in 1..Len(items) :
                  /\ \E i \in M : messages[i] = items[k]
                  /\ \A j \in 1..Len(items) : items[j].id = items[k].id => j = k
                  /\ k > 1 => ~ textLess(items[k - 1].timestamp, items[k].timestamp)
                  /\ Cardinality({i \in M : textLess(items[k].timestamp,
                                                     messages[i].timestamp)})
                         <= pager.offset + k - 1
                  /\ Cardinality({i \in M : ~ textLess(messages[i].timestamp,
                                                       items[k].timestamp)})
                         >= pager.offset + k

\* the ids GET /api/messages of the in-memory server returns for a store, a
\* page at a time (every page of the default limit)
accessible(store) == {r.id : r \in SeqToSet(botListMessages(store, 0, 0))}

\* C26: in the in-memory API server a message stored for a group by one pass
\* is still returned by /api/messages after every later pass of that group:
\* no step takes a stored message out of what the API returns.
C26_StoredStaysAccessible ==
    [][{r.id : r \in SeqToSet(messages)} \subseteq accessible(messages')]_vars

\* C26 witness: a later pass of the group has stored a message that arrived
\* after the baseline, and the chat has outgrown one fetch
C26_LaterPassStored ==
    /\ \E i \in 1..Len(messages) : messages[i].id > MemoryStart
    /\ Len(chatMsgs["g2"]) > MESSAGE_LIMIT

\* message id sits in the chat of "Cairo Team", which is registered and past
\* its first pass, and no pass of the group has fetched it yet
pendingMessage(id) ==
    /\ mgIndex("g1") # 0
    /\ ~heap[monitoredGroups[mgIndex("g1")].obj].isFirstRun
    /\ \E i \in 1..Len(chatMsgs["g1"]) : chatMsgs["g1"][i].id = id
    /\ id \notin SeqToSet(heap[monitoredGroups[mgIndex("g1")].obj].observed)

\* message id is in table messages and the dashboard has received it
persistedAndBroadcast(id) ==
    /\ \E i \in 1..Len(messages) : messages[i].id = id
    /\ \E e \in BagToSet(inbox["c1"]) : e.type = "message" /\ e.msgId = id

\* C27: a group added with AddGroup and not removed keeps being polled: a
\* message that appears in it after its first pass is eventually persisted and
\* broadcast when the timer is still to fire, whether or not the registry was
\* empty when the collaborator became ready.
C27_AddedGroupKeepsPolled ==
    \A id \in 1..MaxMsgs :
        (pendingMessage(id) /\ counters.ticks < MaxTicks) ~> persistedAndBroadcast(id)

\* C27 witness: the group was added while the registry was empty at ready, its
\* first pass is over and a message has arrived since
C27_MessageAfterFirstPass ==
    /\ GROUP_NAMES = <<>>
    /\ clientState = "ready"
    /\ \A t \in TaskIds : tasks[t] = Idle
    /\ \E id \in 1..MaxMsgs : pendingMessage(id)

\* C28: at most one periodic ticker is active at any time, for every sequence
\* of ready, disconnected and ready again.
C28_OneTicker == timers <= 1

\* C28 witness: the collaborator became ready for the second time with a
\* group registered, and the ready handler has run to its end
C28_ReadyAgain ==
    /\ envCount.readies = 2
    /\ clientState = "ready"
    /\ monitoredGroups # <<>>
    /\ \A t \in TaskIds : tasks[t] = Idle \/ tasks[t].kind # "ready"

\* the rows of the events table that a step takes out of it
deleted == {events[i] : i \in 1..Len(events)} \ {events'[i] : i \in 1..Len(events')}

\* C29: replacing the event of key (groupId, memberId, type, date) deletes
\* only rows of exactly that four-part key: every row a step takes out of the
\* events table has the key of the event whose DELETE ran in that step, so
\* events of another date and events of other keys stay.
C29_ReplaceDeletesOwnKey ==
    [][\A r \in deleted :
          \E st \in BagToSet(dbPending) :
              /\ st.stmt = "DELETE_EVENT"
              /\ events' = deleteEvents(events, st)
              /\ eventKey(r) = eventKey(st.row)]_vars

\* C29 witness: a JOIN of b reported today has replaced the stored one while
\* SQLite has nothing left to run
C29_Replaced ==
    /\ envCount.pushes > 0
    /\ dbPending = EmptyBag
    /\ \A t \in TaskIds : tasks[t] = Idle
    /\ \E i \in 1..Len(events) :
           /\ eventKey(events[i]) = eventKey(storedEvent("g2", 0))
           /\ i = Len(events)

\* slot t holds a checkAllGroups run
runOf(t) == tasks[t].kind = "tick"

\* the run of slot t has called checkMessages for group g
reached(t, g) ==
    /\ runOf(t)
    /\ mgIndex(g) # 0
    /\ tasks[t].last >= monitoredGroups[mgIndex(g)].serial

\* C30: a stuck pass affects only its own group: when the run of one slot
\* waits in the pass for "Cairo Team" for ever, every run of another slot
\* still calls checkMessages for "Giza", wherever "Giza" sits in the
\* registry's iteration order.
C30_StuckPassIsLocal ==
    \A t, u \in TaskIds :
        (t # u) =>
            (<>[](runOf(u) /\ tasks[u].g = "g1") => (runOf(t) ~> reached(t, "g2")))

\* C30 witness: a run waits in the pass for "Cairo Team" while a later run
\* has gone on to the pass for "Giza"
C30_LaterRunReachedOther ==
    \E t, u \in TaskIds :
        /\ t # u
        /\ runOf(u) /\ tasks[u].g = "g1"
        /\ runOf(t) /\ tasks[t].g = "g2"

\* C31: for every configured fetch limit and the window capacity 100, a
\* message id that was broadcast as new in one pass of a group is never
\* broadcast as new again in a later pass while the collaborator keeps
\* returning it: the dashboard holds at most one `message` envelope per id.
C31_BroadcastOnce ==
    \A e \in BagToSet(inbox["c1"]) :
        e.type = "message" => CopiesIn(e, inbox["c1"]) <= 1

\* C31 witness: with the larger limit a pass has broadcast a message as new
\* and a later pass has fetched the same slice again
C31_RefetchedAfterBroadcast ==
    /\ messageLimit = BigLimit
    /\ wsClient = newWSClient
    /\ counters.ticks >= 2
    /\ \E t \in TaskIds : tasks[t].kind = "tick" /\ tasks[t].pc = "proc"
    /\ \E e \in BagToSet(inbox["c1"]) : e.type = "message"

\* the `event` envelopes of type etype for member m of group g that
\* connection c has received
eventCopies(c, g, m, etype) ==
    BagCardinality([e \in {x \in BagToSet(inbox[c]) :
                              /\ x.type = "event"
                              /\ x.groupId = g /\ x.memberId = m /\ x.etype = etype}
                      |-> CopiesIn(e, inbox[c])])

\* C32: a single membership change that is reported both by a push
\* notification and by the next polling pass results in one stored event row
\* and at most one `event` envelope: the dashboard never holds two JOIN
\* envelopes of the member, and with no statement pending the table holds at
\* most one JOIN row of the member.
C32_OneEventPerChange ==
    /\ eventCopies("c1", "g2", "b@c", "JOIN") <= 1
    /\ dbPending = EmptyBag =>
           Cardinality({i \in 1..Len(events) :
                           /\ events[i].groupId = "g2"
                           /\ events[i].memberId = "b@c"
                           /\ events[i].type = "JOIN"}) <= 1

\* C32 witness: the join was pushed while the group was in steady state with
\* the old member list, and a later pass has taken the new list as snapshot
C32_PushedAndPolled ==
    /\ envCount.pushes = 1
    /\ eventCopies("c1", "g2", "b@c", "JOIN") >= 1
    /\ mgIndex("g2") # 0
    /\ "b@c" \in heap[monitoredGroups[mgIndex("g2")].obj].previousMembers
    /\ \A t \in TaskIds : tasks[t] = Idle

\* monitoredGroups.get(g): the groupInfo object of a registered group
groupInfoOf(g) == heap[monitoredGroups[mgIndex(g)].obj]

\* in this step a checkMessages call for group g goes on
passStep(g) ==
    \E t \in TaskIds :
        /\ tasks[t].kind \in {"tick", "add"}
        /\ tasks[t].g = g
        /\ tasks'[t] # tasks[t]

\* C33: once a group has completed its baseline pass it stays in steady state
\* for as long as it is in the registry: no step sets its baseline flag
\* again, and only the steps of its sync passes change its Recent-ID Window
\* and its membership snapshot, whatever AddGroup requests and ready events
\* arrive.
C33_StaysSteady ==
    [][\A g \in GroupIds :
          (mgIndex(g) # 0 /\ ~groupInfoOf(g).isFirstRun /\ mgIndex(g)' # 0) =>
              /\ ~groupInfoOf(g)'.isFirstRun
              /\ \/ passStep(g)
                 \/ /\ groupInfoOf(g)'.previousMessageIds = groupInfoOf(g).previousMessageIds
                    /\ groupInfoOf(g)'.previousMembers = groupInfoOf(g).previousMembers]_vars

\* C33 witness: the collaborator became ready a second time with the group
\* registered, and every handler has ended
C33_ReadyAfterBaseline ==
    /\ envCount.readies = 2
    /\ mgIndex("g2") # 0
    /\ \A t \in TaskIds : tasks[t] = Idle

\* what is persisted of group g or handed to SQLite for it: the message ids
\* and the event rows in the tables and in the pending statements
persistedOf(g) ==
    {<<"message", messages[i].id>> :
        i \in {j \in 1..Len(messages) : messages[j].groupId = g}}
    \cup UNION {{<<"message", st.rows[i].id>> :
                    i \in {j \in 1..Len(st.rows) : st.rows[j].groupId = g}} :
                st \in {x \in BagToSet(dbPending) : x.stmt = "UPSERT_MESSAGES"}}
    \cup {<<"event", events[i]>> : i \in {j \in 1..Len(events) : events[j].groupId = g}}
    \cup {<<"event", st.row>> :
             st \in {x \in BagToSet(dbPending) :
                        x.stmt \in {"DELETE_EVENT", "INSERT_EVENT"} /\ x.row.groupId = g}}

\* C34: after RemoveGroup(g) has returned, no message or event of the group
\* is persisted or handed to SQLite and no `message` or `event` envelope of
\* the group is broadcast, in whatever state the group's passes were when it
\* was removed.
C34_SilentAfterRemove ==
    [][\A g \in GroupIds :
          removed(g) =>
              /\ persistedOf(g)' \subseteq persistedOf(g)
              /\ \A c \in Conns : \A e \in BagToSet(inbox'[c]) :
                     (e.type \in {"message", "event"} /\ e.groupId = g) =>
                         /\ BagIn(e, inbox[c])
                         /\ CopiesIn(e, inbox'[c]) <= CopiesIn(e, inbox[c])]_vars

\* C34 witness: the group was removed while a pass for it was in flight
C34_RemovedInFlight ==
    /\ removed("g2")
    /\ \E t \in TaskIds : tasks[t].kind = "tick" /\ tasks[t].g = "g2"

\* the voice messages in the chat of group g
voiceMessages(g) == {i \in 1..Len(chatMsgs[g]) : chatMsgs[g][i].type \in {"ptt", "audio"}}

\* C35: for each voice message of a group at most one CERTIFICATE `event`
\* envelope is broadcast over all passes of the group, and none during the
\* group's first pass: the dashboard holds no more CERTIFICATE envelopes of
\* the sender than the chat holds voice messages, and none before the timer
\* has fired (the passes of the ready handler's run are first passes).
C35_OneCertificateEnvelope ==
    /\ eventCopies("c1", "g2", phoneOf(VoiceKind.author), "CERTIFICATE")
           <= Cardinality(voiceMessages("g2"))
    /\ counters.ticks = 0 =>
           eventCopies("c1", "g2", phoneOf(VoiceKind.author), "CERTIFICATE") = 0

\* C35 witness: the first pass of the group has fetched a voice message and
\* SQLite has run everything it was handed
C35_VoiceInFirstPass ==
    /\ counters.ticks = 0
    /\ mgIndex("g2") # 0
    /\ ~groupInfoOf("g2").isFirstRun
    /\ dbPending = EmptyBag
    /\ \E i \in 1..Len(events) : events[i].type = "CERTIFICATE"
\* Retry: one configured group whose chat receives `member added`
\* notifications while member b comes and goes; the collaborator's getChats
\* and fetchMessages calls may reject. The timer fires between the passes.
InitRetry == InitBase(<<giza>>, <<"c1">>)

NextRetry ==
    \/ PostMessage("g2", AddedKind)
    \/ MemberChange("g2", "b@c")
    \/ ClientReady
    \/ \E t \in TaskIds : ReadyStep(t, TRUE)
    \/ TickAfterPass(MaxTicks)
    \/ CheckMessages({"ok", "throw"}, BOOLEAN, {TRUE})
    \/ MemberEvents({TRUE})

SpecRetry == InitRetry /\ [][NextRetry]_vars

\* the checkMessages call of slot t returns in this step from the last
\* message of its processing or broadcast loop
loopEnds(t) ==
    /\ passEnds(t)
    /\ tasks[t].pc \in {"proc", "bcast"}
    /\ Len(tasks[t].todo) = 1

\* the checkMessages call of slot t returns in this step having processed
\* all it fetched: from the fetch when nothing is to be processed, or from
\* the last message of a loop
completes(t) ==
    /\ passEnds(t)
    /\ \/ /\ tasks[t].pc = "fetch"
          /\ heap'[tasks[t].obj].fetched = fetchMessages(tasks[t].g, messageLimit)
       \/ loopEnds(t)

\* the membership diff of the baseline pass of slot t has emitted nothing, the
\* pass has broadcast no `message` envelope, and no pass is in its broadcast
\* loop while its group is in baseline state
baselineQuiet(t) ==
    /\ baselinePass(t) =>
           /\ \A e \in tasks[t].emitted : e.via # "diff"
           /\ heap[tasks[t].obj].isFirstRun => tasks[t].sent = {}
    /\ (tasks[t].kind \in {"tick", "add"} /\ tasks[t].pc = "bcast") =>
           ~heap[tasks[t].obj].isFirstRun

connected == {c \in Conns : readyState[c] \in {"OPEN", "CLOSING"}}

\* C37: after every step wsClients holds exactly the connections that have
\* connected and have raised neither a close nor an error event, each of them
\* once; and a connection that has raised one, and so has left wsClients, is
\* sent nothing by any later step.
C37_SubscribersAreConnected ==
    [][/\ SeqToSet(wsClients') = connected'
       /\ Len(wsClients') = Cardinality(connected')
       /\ \A c \in Conns :
              readyState[c] = "CLOSED" =>
                  /\ c \notin SeqToSet(wsClients)
                  /\ inbox'[c] = inbox[c]]_vars

\* C37 witness: connection c1 received `ready` as a subscriber and has left
\* wsClients; the `disconnected` envelope broadcast after that went to c2 and
\* not to c1
C37_BroadcastAfterClose ==
    /\ readyState["c1"] = "CLOSED"
    /\ wsClients = <<"c2">>
    /\ BagIn(clientEnvelope("ready"), inbox["c1"])
    /\ ~ BagIn(clientEnvelope("disconnected"), inbox["c1"])
    /\ BagIn(clientEnvelope("disconnected"), inbox["c2"])
\* The process ends and is started again: the module's top level runs anew
\* (lines 85-90: config.json is read, GROUP_NAMES = config.groups), the Maps,
\* the Set of sockets, the timers and every handler of the old process are
\* gone; config.json, the database and what was sent stay as they are.
Restart ==
    /\ clientState # "starting"
    /\ GROUP_NAMES' = configFile
    /\ clientState' = "starting"
    /\ isClientReady' = FALSE
    /\ unhandled' = 0
    /\ monitoredGroups' = <<>>
    /\ heap' = <<>>
    /\ groupInfoStore' = [x \in {} |-> [name |-> <<>>, memberCount |-> 0]]
    /\ timers' = 0
    /\ tasks' = [t \in TaskIds |-> Idle]
    /\ counters' = [counters EXCEPT !.serial = 0]
    /\ dbPending' = EmptyBag
    /\ wsClients' = <<>>
    /\ readyState' = [c \in Conns |->
                         IF readyState[c] = "NONE" THEN "NONE" ELSE "CLOSED"]
    /\ UNCHANGED <<envVars, messageLimit, wsClient, configFile, messages, events, inbox, http>>

\* POST /api/groups arrives before any group has been removed
AddBeforeRemove(name) == (\A g \in GroupIds : ~removed(g)) /\ AddGroupUpTo(1, name)

\* DELETE /api/groups/g arrives when no handler is in flight
RemoveWhenIdle(g) == (\A t \in TaskIds : tasks[t] = Idle) /\ RemoveGroup(g)

\* Restart: config.json names nothing or "Cairo Team", by a part of its name
\* or by its full name; the group may be added over HTTP under either name;
\* it is removed over HTTP and the process is restarted.
InitRestart == \E names \in {<<>>, <<cairo>>, <<CairoTeam>>} : InitBase(names, <<>>)

NextRestart ==
    \/ ClientReady
    \/ \E t \in TaskIds : ReadyStep(t, TRUE)
    \/ \E name \in {cairo, CairoTeam} : AddBeforeRemove(name)
    \/ \E t \in TaskIds : AddGetChats(t, TRUE)
    \/ \E t \in TaskIds : PassGetChats(t, "ok")
    \/ \E t \in TaskIds : PassFetch(t, TRUE)
    \/ RemoveWhenIdle("g1")
    \/ Restart

SpecRestart == InitRestart /\ [][NextRestart]_vars

\* C38: once RemoveGroup has succeeded for "Cairo Team" the group is not
\* monitored again, whatever restarts and ready events follow and whatever
\* name it was configured or added with (no group is added after the removal)
C38_RemovedStaysRemoved == removed("g1") => mgIndex("g1") = 0
\* -------------------------------------------------- POST /api/auth/logout
\* the request arrives: up to the callback of db.run('DELETE FROM messages')
Logout ==
    /\ hasFreeSlot
    /\ tasks' = [tasks EXCEPT ![freeSlot] = [newTask("logout", <<>>) EXCEPT !.pc = "messages"]]
    /\ UNCHANGED <<envVars, cliVars, regVars, wsClient, timers, counters, dbVars, wsVars, http>>

\* the handler goes on from one await to the next: the two DELETE statements
\* have run, the Maps and config.json are cleared, client.logout() and
\* client.destroy() have returned (or thrown, which is caught), the second of
\* waiting is over and the request is answered
LogoutStep(t) ==
    LET tk == tasks[t]
    IN  /\ tk.kind = "logout"
        /\ CASE tk.pc = "messages" ->
                  /\ messages' = <<>>
                  /\ tasks' = [tasks EXCEPT ![t].pc = "events"]
                  /\ UNCHANGED <<cliVars, regVars, wsClient, events, http>>
             [] tk.pc = "events" ->
                  /\ events' = <<>>
                  /\ monitoredGroups' = <<>>
                  /\ groupInfoStore' = [x \in {} |-> [name |-> <<>>, memberCount |-> 0]]
                  /\ configFile' = <<>>
                  /\ tasks' = [tasks EXCEPT ![t].pc =
                                  IF isClientReady THEN "logout" ELSE "destroy"]
                  /\ UNCHANGED <<cliVars, GROUP_NAMES, messageLimit, wsClient, heap, messages, http>>
             [] tk.pc = "logout" ->
                  /\ isClientReady' = FALSE
                  /\ tasks' = [tasks EXCEPT ![t].pc = "destroy"]
                  /\ UNCHANGED <<clientState, unhandled, regVars, wsClient, messages, events, http>>
             [] tk.pc = "destroy" ->
                  /\ clientState' = "none"
                  /\ tasks' = [tasks EXCEPT ![t].pc = "sleep"]
                  /\ UNCHANGED <<isClientReady, unhandled, regVars, wsClient, messages, events, http>>
             [] tk.pc = "sleep" ->
                  /\ http' = respond("200", <<>>, "")
                  /\ tasks' = [tasks EXCEPT ![t] = Idle]
                  /\ UNCHANGED <<cliVars, regVars, wsClient, messages, events>>
        /\ UNCHANGED <<envVars, timers, counters, dbPending, wsVars>>

\* GET /api/auth/qr after a logout: `if (!client)` creates and initializes a
\* new client, whose events the handlers of initClient receive
QrRequest ==
    /\ clientState = "none"
    /\ clientState' = "starting"
    /\ UNCHANGED <<envVars, isClientReady, unhandled, regVars, wsClient, timers, tasks, counters,
                   dbVars, wsVars, http>>

\* POST /api/auth/logout has been answered 200
loggedOut == [status |-> "200", name |-> <<>>, groupId |-> ""] \in http

\* the one logout request arrives when the collaborator is ready, no handler
\* is in flight and SQLite has run what it was handed
LogoutWhenIdle ==
    /\ ~loggedOut
    /\ clientState = "ready"
    /\ \A t \in TaskIds : tasks[t] = Idle
    /\ dbPending = EmptyBag
    /\ Logout

\* the dashboard asks for a QR code when its logout request was answered
QrAfterLogout == loggedOut /\ QrRequest

\* Logout: "Giza" is configured and text messages arrive in its chat; the
\* operator logs out, asks for a QR code and authenticates again. No group
\* is added over HTTP.
InitLogout == InitBase(<<giza>>, <<"c1">>)

NextLogout ==
    \/ PostMessage("g2", ChatKind)
    \/ ClientReady
    \/ \E t \in TaskIds : ReadyStep(t, TRUE)
    \/ TickAfterPass(MaxTicks)
    \/ CheckMessages({"ok"}, {TRUE}, {TRUE})
    \/ Sqlite
    \/ LogoutWhenIdle
    \/ \E t \in TaskIds : LogoutStep(t)
    \/ QrAfterLogout

SpecLogout == InitLogout /\ [][NextLogout]_vars

\* C39: when logout is answered the registry and both tables are empty, and
\* from then on no pass is started and no row is written to either table,
\* whatever QR requests, ready events and ticks follow (no group is added)
C39_LogoutStopsListening ==
    [][/\ (loggedOut' /\ ~loggedOut) =>
              /\ monitoredGroups' = <<>>
              /\ messages' = <<>>
              /\ events' = <<>>
       /\ loggedOut =>
              /\ \A t \in TaskIds, g \in GroupIds : ~ startsPass(t, g)
              /\ messages' = messages
              /\ events' = events]_vars

\* C39 witness: logout was answered, and the collaborator was authenticated
\* again and is ready
C39_ReadyAfterLogout ==
    /\ loggedOut
    /\ clientState = "ready"
    /\ \A t \in TaskIds : tasks[t] = Idle
\* ------------------------------------------------- WSClient (the dashboard)
\* WSClient.connect(): nothing when this.ws is open; else a new WebSocket is
\* created and assigned to this.ws, with the four handlers set on it
connect(c) ==
    IF c.ws # 0 /\ c.sockets[c.ws] = "OPEN" THEN c
    ELSE [c EXCEPT !.sockets = Append(@, "CONNECTING"), !.ws = Len(c.sockets) + 1]

\* WSClient.disconnect(): clearTimeout of the handle in reconnectTimeout, then
\* this.ws.close() and this.ws = null
disconnect(c) ==
    LET c1 == IF c.reconnectTimeout # 0
              THEN [c EXCEPT !.pending = @ \ {c.reconnectTimeout}, !.reconnectTimeout = 0]
              ELSE c
    IN  IF c1.ws # 0
        THEN [c1 EXCEPT !.sockets[c1.ws] =
                            IF @ \in {"CONNECTING", "OPEN"} THEN "CLOSING" ELSE @,
                        !.ws = 0]
        ELSE c1

\* connect() creates no socket beyond MaxSockets
canConnect(c) == (c.ws # 0 /\ c.sockets[c.ws] = "OPEN") \/ Len(c.sockets) < MaxSockets

\* the application calls wsClient.connect()
WsClientConnect ==
    /\ canConnect(wsClient)
    /\ wsClient' = [connect(wsClient) EXCEPT !.called = "connect"]
    /\ UNCHANGED backendVars

\* the application calls wsClient.disconnect()
WsClientDisconnect ==
    /\ wsClient' = [disconnect(wsClient) EXCEPT !.called = "disconnect"]
    /\ UNCHANGED backendVars

\* the connection of socket i is established: onopen
SocketOpens(i) ==
    /\ i <= Len(wsClient.sockets)
    /\ wsClient.sockets[i] = "CONNECTING"
    /\ wsClient' = [wsClient EXCEPT !.sockets[i] = "OPEN"]
    /\ UNCHANGED backendVars

\* socket i is closed (the connection failed or was lost, or close() was
\* called on it): onclose arms a timeout and stores its handle in
\* reconnectTimeout; the handle is the number of the socket
SocketCloses(i) ==
    /\ i <= Len(wsClient.sockets)
    /\ wsClient.sockets[i] \in {"CONNECTING", "OPEN", "CLOSING"}
    /\ wsClient' = [wsClient EXCEPT !.sockets[i] = "CLOSED",
                                    !.reconnectTimeout = i,
                                    !.pending = @ \cup {i}]
    /\ UNCHANGED backendVars

\* an armed timeout fires: () => this.connect()
ReconnectFires(h) ==
    /\ h \in wsClient.pending
    /\ canConnect(wsClient)
    /\ wsClient' = connect([wsClient EXCEPT !.pending = @ \ {h}])
    /\ UNCHANGED backendVars

\* WSClient: the dashboard connects and disconnects while its sockets open
\* and close; the backend does nothing.
InitWSClient == InitBase(<<>>, <<>>)

NextWSClient ==
    \/ WsClientConnect
    \/ WsClientDisconnect
    \/ \E i \in 1..MaxSockets : SocketOpens(i)
    \/ \E i \in 1..MaxSockets : SocketCloses(i)
    \/ \E h \in 1..MaxSockets : ReconnectFires(h)

SpecWSClient == InitWSClient /\ [][NextWSClient]_vars

\* the sockets of the client that are connecting or open
liveSockets == {i \in 1..Len(wsClient.sockets) : wsClient.sockets[i] \in {"CONNECTING", "OPEN"}}

\* C40: while disconnect() is the method the application called last no
\* socket is created, and the client never has more than one socket that is
\* connecting or open
C40_DisconnectIsFinal ==
    [][/\ (wsClient.called = "disconnect" /\ wsClient'.called = "disconnect") =>
              Len(wsClient'.sockets) = Len(wsClient.sockets)
       /\ Cardinality(liveSockets') <= 1]_vars

\* C40 witness: the application has disconnected an open socket, and the
\* socket has been closed since
C40_ClosedAfterDisconnect ==
    /\ wsClient.called = "disconnect"
    /\ wsClient.ws = 0
    /\ \E i \in 1..Len(wsClient.sockets) : wsClient.sockets[i] = "CLOSED"
    /\ wsClient.pending # {}
====
